---- MODULE Spec2Model ----
(***************************************************************************)
(* Model of the purchase-invoice search backend.                           *)
(*                                                                         *)
(* Part 1: SearchService.semanticSearch (src/src/services/                 *)
(*         search.service.ts, lines 43-361), one request from the moment   *)
(*         preprocessQuery has returned to the moment the call returns or  *)
(*         throws.  Each action is the code between two awaits.            *)
(* Part 2: FuzzyMatchingService's vocabulary cache (src/src/services/      *)
(*         fuzzy-matching.service.ts, lines 46-51 and 530-581).            *)
(*                                                                         *)
(* Optional values (a field that may be undefined in the TypeScript) are   *)
(* sets with at most one element: {} is undefined, {v} is the value v.     *)
(* Dates are day numbers, amounts are integers in currency units, and a    *)
(* similarity score is an integer (cosine similarity -1, 0 or 1).          *)
(***************************************************************************)
EXTENDS Integers, Sequences, FiniteSets, TLC

VARIABLES
    pc,              \* position of the request inside semanticSearch
    filters,         \* the caller's SearchFilters, until last read (line 101)
    preprocessed,    \* what preprocessQuery returned, until last read (line 101)
    callerLimit,     \* filters.limit as the caller passed it
    normalizedQuery, \* const normalizedQuery (line 60)
    vendorNames,     \* preprocessed.vendorNames, read again at line 280
    limit,           \* const limit (line 70)
    whereConditions, \* the predicates pushed (lines 73-111)
    replacements,    \* the bound values sent to the store (lines 74-111)
    table,           \* the PurchaseInvoice rows the store held when queried
    matched,         \* the table rows the store's WHERE clause selected
    rawResults,      \* what the store returned for the query
    results,         \* let results (line 123)
    returned,        \* the SearchResult[] handed to the caller
    outcome,         \* "pending", "returned" or "thrown"
    calls,           \* the suspending I/O calls issued, in order
    failed,          \* the I/O calls that ended in an error
    cache,           \* vendorList/productList/lastCacheUpdate of the corrector
    now,             \* the clock read by refreshEntityCache
    refresh,         \* per caller, the correctQuery call in flight, if any
    recording,       \* whether the history fields before/writtenBy are kept
    fn,              \* the pure function under evaluation, if any
    arg,             \* its arguments
    out              \* the values it has returned so far, in order

searchVars == <<pc, filters, preprocessed, callerLimit, normalizedQuery,
                vendorNames, limit, whereConditions, replacements, table,
                matched, rawResults, results, returned, outcome, calls, failed>>
cacheVars == <<cache, now, refresh, recording>>
pureVars == <<fn, arg, out>>
vars == <<searchVars, cacheVars, pureVars>>

----------------------------------------------------------------------------
(* Bounds of the model *)

MaxRows == 3
MaxLimit == 1
MaxBranch == 2
MaxDate == 2
MaxAmount == 2
MaxPeriods == 2
MaxCalls == 2
MaxQueryTokens == 3
MaxTextLen == 4
MaxYears == 2
MaxPhrases == 2

(* Program constants *)

DefaultLimit == 20

\* private readonly CACHE_TTL_MS = 5 * 60 * 1000 (fuzzy-matching.service.ts, line 51)
CACHE_TTL_MS == 300000

----------------------------------------------------------------------------
(* Generic helpers *)

Has(o) == o # {}
Val(o) == CHOOSE v \in o : TRUE
Opt(S) == {{}} \cup {{v} : v \in S}

SetMin(S) == CHOOSE x \in S : \A y \in S : x <= y
SetMax(S) == CHOOSE x \in S : \A y \in S : y <= x

Range(s) == {s[i] : i \in 1..Len(s)}

\* All orderings of the elements of a finite set, as sequences.
Perms(S) == {p \in [1..Cardinality(S) -> S] : \A x \in S : \E i \in DOMAIN p : p[i] = x}

----------------------------------------------------------------------------
(* Value domains *)

\* Branch ids are the positive ids the store holds (1..5 in the sample data,
\* generate-sample-invoices.ts line 211); the code reads 0 as no branch id.
Branches == 1..MaxBranch
Dates == 1..MaxDate
Amounts == {10 * k : k \in 1..MaxAmount}
Limits == {-1, 0} \cup (1..MaxLimit)
Scores == {-1, 0, 1}

SearchFilters ==
    [branchId : Opt(Branches), dateFrom : Opt(Dates), dateTo : Opt(Dates),
     amountMin : Opt(Amounts), amountMax : Opt(Amounts), limit : Opt(Limits)]

----------------------------------------------------------------------------
(* The query preprocessor, as far as semanticSearch reads its result *)

\* extractDates, lines 1147-1186: the dates found are sorted; one date gives a
\* one-day range, several give first..last; none gives no field at all.
extractDates(found) ==
    IF found = {} THEN [dateFrom |-> {}, dateTo |-> {}]
    ELSE [dateFrom |-> {SetMin(found)}, dateTo |-> {SetMax(found)}]

extractAmountsFifthTolerance(found, rangeMatch) ==
    IF found = {} THEN [amountMin |-> {}, amountMax |-> {}]
    ELSE IF rangeMatch
    THEN [amountMin |-> {SetMin(found)}, amountMax |-> {SetMax(found)}]
    ELSE IF Cardinality(found) = 1
    THEN LET amount == SetMin(found)
             tolerance == amount \div 5
         IN [amountMin |-> {IF amount - tolerance > 0 THEN amount - tolerance ELSE 0},
             amountMax |-> {amount + tolerance}]
    ELSE [amountMin |-> {SetMin(found)}, amountMax |-> {SetMax(found)}]

\* extractAmounts, lines 1285-1317: uniqueAmounts is the sorted set of the
\* amounts found (all > 0); rangeMatch tells whether "between X and Y" /
\* "from X to Y" occurs in the text; the tolerance is amount * 0.1, exact for
\* the amounts drawn, which are multiples of ten.
extractAmounts(found, rangeMatch) ==
    IF found = {} THEN [amountMin |-> {}, amountMax |-> {}]
    ELSE IF rangeMatch
    THEN [amountMin |-> {SetMin(found)}, amountMax |-> {SetMax(found)}]
    ELSE IF Cardinality(found) = 1
    THEN LET amount == SetMin(found)
             tolerance == amount \div 10
         IN [amountMin |-> {IF amount - tolerance > 0 THEN amount - tolerance ELSE 0},
             amountMax |-> {amount + tolerance}]
    ELSE [amountMin |-> {SetMin(found)}, amountMax |-> {SetMax(found)}]

\* The residual text and the vendor candidates preprocessQuery may hand over:
\* nothing left, plain text, text holding a vendor name.
Residuals ==
    {[normalizedQuery |-> "", vendorNames |-> <<>>],
     [normalizedQuery |-> "laptops", vendorNames |-> <<>>],
     [normalizedQuery |-> "Gaurav laptops", vendorNames |-> <<"Gaurav">>]}

\* preprocessQuery, lines 978-984: the residual, ...dateInfo, ...amountInfo.
preprocessQuery(residual, datesFound, amountsFound, rangeMatch) ==
    LET dateInfo == extractDates(datesFound)
        amountInfo == extractAmounts(amountsFound, rangeMatch)
    IN [normalizedQuery |-> residual.normalizedQuery,
        vendorNames |-> residual.vendorNames,
        dateFrom |-> dateInfo.dateFrom, dateTo |-> dateInfo.dateTo,
        amountMin |-> amountInfo.amountMin, amountMax |-> amountInfo.amountMax]

----------------------------------------------------------------------------
(* The invoice store *)

\* Row i of the sample table: three attributes that differ from row to row,
\* and an embedding on every row but each third one.
SampleRow(i) ==
    [id |-> i,
     branchId |-> ((i - 1) % MaxBranch) + 1,
     invoiceDate |-> ((i \div 2) % MaxDate) + 1,
     totalAmount |-> 10 * ((((i - 1) \div 2) % MaxAmount) + 1),
     hasEmbedding |-> (i % 3 # 0)]

SampleStore(n) == {SampleRow(i) : i \in 1..n}

\* The table contents a query may find: any number of rows up to MaxRows.
Stores == {SampleStore(n) : n \in 0..MaxRows}

\* WHERE clause of lines 80-121 evaluated on one row: every pushed predicate
\* holds with the bound replacement values.
RowMatches(row, where, repl) ==
    /\ "branchId" \in Range(where) => row.branchId = Val(repl.branchId)
    /\ "dateFrom" \in Range(where) => row.invoiceDate >= Val(repl.dateFrom)
    /\ "dateTo" \in Range(where) => row.invoiceDate <= Val(repl.dateTo)
    /\ "amountMin" \in Range(where) => row.totalAmount >= Val(repl.amountMin)
    /\ "amountMax" \in Range(where) => row.totalAmount <= Val(repl.amountMax)

\* Main query, lines 158-172: rows with an embedding that satisfy the WHERE
\* clause (embeddingWhereClause, lines 146-148).
SimilarityCandidates(rows, where, repl) ==
    {r \in rows : r.hasEmbedding /\ RowMatches(r, where, repl)}

\* Filter-only query, lines 315-330: rows that satisfy the WHERE clause.
FilterCandidates(rows, where, repl) ==
    {r \in rows : RowMatches(r, where, repl)}

\* The projection of a row the store returns, with its computed similarity.
Project(row, score) ==
    [id |-> row.id, invoiceDate |-> row.invoiceDate,
     totalAmount |-> row.totalAmount, similarityScore |-> score]

----------------------------------------------------------------------------
(* semanticSearch: the synchronous part before the first I/O call *)

\* const limit = filters.limit || 20 (line 70): undefined and 0 are falsy.
EffectiveLimit(f) ==
    IF Has(f.limit) /\ Val(f.limit) # 0 THEN Val(f.limit) ELSE DefaultLimit

\* if (filters.branchId) (lines 80-83).
BranchPredicate(f) ==
    IF Has(f.branchId) /\ Val(f.branchId) # 0 THEN f.branchId ELSE {}

\* The operands of line 86 swapped: filters.dateFrom || preprocessed.dateFrom.
CallerDateFromFirst(pre, f) == IF Has(f.dateFrom) THEN f.dateFrom ELSE pre.dateFrom

\* preprocessed.dateFrom || filters.dateFrom (lines 86-87).
MergedDateFrom(pre, f) == IF Has(pre.dateFrom) THEN pre.dateFrom ELSE f.dateFrom
MergedDateTo(pre, f) == IF Has(pre.dateTo) THEN pre.dateTo ELSE f.dateTo

\* preprocessed.amountMin ?? filters.amountMin (lines 100-101).
MergedAmountMin(pre, f) == IF Has(pre.amountMin) THEN pre.amountMin ELSE f.amountMin
MergedAmountMax(pre, f) == IF Has(pre.amountMax) THEN pre.amountMax ELSE f.amountMax

\* replacements after line 111.
BuildReplacements(pre, f) ==
    [limit |-> EffectiveLimit(f),
     branchId |-> BranchPredicate(f),
     dateFrom |-> MergedDateFrom(pre, f),
     dateTo |-> MergedDateTo(pre, f),
     amountMin |-> MergedAmountMin(pre, f),
     amountMax |-> MergedAmountMax(pre, f)]

\* whereConditions after line 111: one entry per bound that is set, in the
\* order the code pushes them.
BuildWhereConditions(repl) ==
    (IF Has(repl.branchId) THEN <<"branchId">> ELSE <<>>)
    \o (IF Has(repl.dateFrom) THEN <<"dateFrom">> ELSE <<>>)
    \o (IF Has(repl.dateTo) THEN <<"dateTo">> ELSE <<>>)
    \o (IF Has(repl.amountMin) THEN <<"amountMin">> ELSE <<>>)
    \o (IF Has(repl.amountMax) THEN <<"amountMax">> ELSE <<>>)

\* hasSemanticContent (lines 60-63).
HasSemanticContent(text) == text # ""

\* The early return of lines 113-116 left out.
NothingToSearchNoEarlyReturn(where, text) == FALSE

\* lines 113-116.
NothingToSearch(where, text) == Len(where) = 0 /\ ~HasSemanticContent(text)

----------------------------------------------------------------------------
(* semanticSearch: ranking and mapping of the rows *)

\* Number(x) || 0 (lines 186-187, 354).
NumberOrZero(x) == IF x = 0 THEN 0 ELSE x

\* The comparator of line 188 turned round (scoreA - scoreB): lowest first.
RECURSIVE SortBySimilarityAscending(_)
SortBySimilarityAscending(rows) ==
    IF Len(rows) = 0 THEN <<>>
    ELSE LET rest == SortBySimilarityAscending(SubSeq(rows, 1, Len(rows) - 1))
             x == rows[Len(rows)]
             keep == {i \in 1..Len(rest) :
                        \A j \in 1..i :
                          rest[j].similarityScore <= x.similarityScore}
             k == Cardinality(keep)
         IN SubSeq(rest, 1, k) \o <<x>> \o SubSeq(rest, k + 1, Len(rest))

\* Array.prototype.sort with the comparator of lines 185-189: a stable sort,
\* highest similarity first (insertion of each row after the rows that do
\* not rank below it).
RECURSIVE SortBySimilarity(_)
SortBySimilarity(rows) ==
    IF Len(rows) = 0 THEN <<>>
    ELSE LET rest == SortBySimilarity(SubSeq(rows, 1, Len(rows) - 1))
             x == rows[Len(rows)]
             keep == {i \in 1..Len(rest) :
                        \A j \in 1..i :
                          NumberOrZero(rest[j].similarityScore)
                            >= NumberOrZero(x.similarityScore)}
             k == Cardinality(keep)
         IN SubSeq(rest, 1, k) \o <<x>> \o SubSeq(rest, k + 1, Len(rest))

\* Array.prototype.slice(0, end) (line 191): a negative end counts from the
\* end of the array.
SliceTo(rows, end) ==
    LET n == Len(rows)
        e == IF end < 0 THEN (IF n + end > 0 THEN n + end ELSE 0)
             ELSE (IF end < n THEN end ELSE n)
    IN SubSeq(rows, 1, e)

\* lines 185-191.
RankAndTruncate(rows, lim) == SliceTo(SortBySimilarity(rows), lim)

\* results.map(...) (lines 342-356): the fields of a SearchResult the model
\* keeps.
ToSearchResults(rows) ==
    [i \in 1..Len(rows) |->
        [id |-> rows[i].id, invoiceDate |-> rows[i].invoiceDate,
         totalAmount |-> NumberOrZero(rows[i].totalAmount),
         similarityScore |-> NumberOrZero(rows[i].similarityScore)]]

\* ORDER BY "invoiceDate" ASC in place of DESC.
DateAscOrders(rows) ==
    {p \in [1..Cardinality(rows) -> rows] :
        /\ \A x \in rows : \E i \in DOMAIN p : p[i] = x
        /\ \A i \in 1..(Len(p) - 1) : p[i].invoiceDate <= p[i + 1].invoiceDate}

\* ORDER BY "invoiceDate" DESC LIMIT :limit (lines 328-329): the orderings
\* the store may return; rows of one date come in any order.
DateDescOrders(rows) ==
    {p \in Perms(rows) :
        \A i \in 1..(Len(p) - 1) : p[i].invoiceDate >= p[i + 1].invoiceDate}

\* LIMIT n of the store, n >= 0.
LimitTo(rows, n) == SubSeq(rows, 1, IF n < Len(rows) THEN n ELSE Len(rows))

\* generateEmbedding (lines 673-691): throws when the gateway is not
\* configured, when embedContent rejects and when the vector is empty.
EmbeddingConditions == {"vector", "unconfigured", "unreachable", "emptyVector"}
generateEmbeddingThrows(condition) ==
    \/ condition = "unconfigured"
    \/ condition = "unreachable"
    \/ condition = "emptyVector"

----------------------------------------------------------------------------
(* semanticSearch as a state machine *)

\* The arguments once the code has read them for the last time.
Consumed == [consumed |-> TRUE]

SearchInit ==
    /\ pc = "start"
    /\ filters \in SearchFilters
    /\ \E residual \in Residuals, datesFound \in SUBSET Dates,
          amountsFound \in SUBSET Amounts, rangeMatch \in BOOLEAN :
          preprocessed = preprocessQuery(residual, datesFound, amountsFound, rangeMatch)
    /\ callerLimit = {}
    /\ normalizedQuery = ""
    /\ vendorNames = <<>>
    /\ limit = 0
    /\ whereConditions = <<>>
    /\ replacements = [limit |-> 0, branchId |-> {}, dateFrom |-> {}, dateTo |-> {},
                       amountMin |-> {}, amountMax |-> {}]
    /\ table = {}
    /\ matched = {}
    /\ rawResults = <<>>
    /\ results = <<>>
    /\ returned = <<>>
    /\ outcome = "pending"
    /\ calls = <<>>
    /\ failed = {}

\* return value of the call
Return(list) ==
    /\ returned' = list
    /\ outcome' = "returned"
    /\ pc' = "done"

\* The outer catch returning an empty list instead of rethrowing.
SwallowAndReturnEmpty ==
    /\ outcome' = "returned"
    /\ pc' = "done"
    /\ UNCHANGED returned

\* throw error (lines 357-360)
Throw ==
    /\ outcome' = "thrown"
    /\ pc' = "done"
    /\ UNCHANGED returned

Issue(call) ==
    /\ calls' = Append(calls, call)
    /\ pc' = call
    /\ UNCHANGED <<returned, outcome>>

\* lines 60-111: the limit, the merged bounds and the WHERE predicates.
MergeFilters ==
    /\ pc = "start"
    /\ pc' = "merged"
    /\ callerLimit' = filters.limit
    /\ normalizedQuery' = preprocessed.normalizedQuery
    /\ vendorNames' = preprocessed.vendorNames
    /\ limit' = EffectiveLimit(filters)
    /\ replacements' = BuildReplacements(preprocessed, filters)
    /\ whereConditions' = BuildWhereConditions(BuildReplacements(preprocessed, filters))
    /\ UNCHANGED <<filters, preprocessed, table, matched, rawResults, results, returned,
                   outcome, calls, failed, cacheVars, pureVars>>

\* lines 113-139 and 311-314: return [] when there is nothing to search on,
\* else issue the embedding call or the filter-only query.
Dispatch ==
    /\ pc = "merged"
    /\ IF NothingToSearch(whereConditions, normalizedQuery)
       THEN Return(<<>>) /\ UNCHANGED calls
       ELSE IF HasSemanticContent(normalizedQuery)
       THEN Issue("generateEmbedding")
       ELSE Issue("filterQuery")
    /\ filters' = Consumed
    /\ preprocessed' = Consumed
    /\ UNCHANGED <<callerLimit, normalizedQuery, vendorNames, limit, whereConditions,
                   replacements, table, matched, rawResults, results, failed, cacheVars, pureVars>>

\* line 139 resumes: the vector arrives and the main query is issued
\* (lines 140-181), or generateEmbedding throws and the outer catch rethrows.
EmbeddingDone ==
    /\ pc = "generateEmbedding"
    /\ \E condition \in EmbeddingConditions :
          IF generateEmbeddingThrows(condition)
          THEN /\ failed' = failed \cup {"generateEmbedding"}
               /\ Throw
               /\ UNCHANGED calls
          ELSE /\ Issue("mainQuery")
               /\ UNCHANGED failed
    /\ UNCHANGED <<filters, preprocessed, callerLimit, normalizedQuery, vendorNames,
                   limit, whereConditions, replacements, table, matched, rawResults,
                   results, cacheVars, pureVars>>

\* lines 268-310 when results is empty: the direct vector test is issued when
\* the preprocessor found a vendor name, else the empty list is mapped and
\* returned (lines 338-356).
AfterEmptyResults ==
    IF Len(vendorNames) > 0
    THEN Issue("directTest")
    ELSE Return(ToSearchResults(<<>>)) /\ UNCHANGED calls

\* lines 175-199: the main query returns its rows in an order of the store's
\* choosing, each with the similarity the store computed; they are sorted and
\* truncated.  A non-empty result is mapped and returned, an empty one starts
\* the diagnostic queries (lines 200-219).
MainQueryReturns ==
    /\ pc = "mainQuery"
    /\ \E rows \in Stores :
         LET cand == SimilarityCandidates(rows, whereConditions, replacements)
         IN \E order \in Perms(cand), score \in [{r.id : r \in cand} -> Scores] :
              LET raw == [i \in 1..Len(order) |-> Project(order[i], score[order[i].id])]
                  top == RankAndTruncate(raw, limit)
              IN /\ table' = rows
                 /\ matched' = cand
                 /\ rawResults' = raw
                 /\ results' = top
                 /\ IF Len(top) > 0
                    THEN Return(ToSearchResults(top)) /\ UNCHANGED calls
                    ELSE Issue("diagnostic1")
    /\ UNCHANGED <<filters, preprocessed, callerLimit, normalizedQuery, vendorNames,
                   limit, whereConditions, replacements, failed, cacheVars, pureVars>>

\* lines 261-265: the main query throws, the inner catch sets results = [];
\* execution goes on at line 268.
MainQueryFails ==
    /\ pc = "mainQuery"
    /\ failed' = failed \cup {"mainQuery"}
    /\ results' = <<>>
    /\ AfterEmptyResults
    /\ UNCHANGED <<filters, preprocessed, callerLimit, normalizedQuery, vendorNames,
                   limit, whereConditions, replacements, table, matched, rawResults,
                   cacheVars, pureVars>>

\* lines 204-232: test 1 returns or throws (caught, line 226); test 2 is issued.
Diagnostic1Done ==
    /\ pc = "diagnostic1"
    /\ \E ok \in BOOLEAN :
          failed' = IF ok THEN failed ELSE failed \cup {"diagnostic1"}
    /\ Issue("diagnostic2")
    /\ UNCHANGED <<filters, preprocessed, callerLimit, normalizedQuery, vendorNames,
                   limit, whereConditions, replacements, table, matched, rawResults,
                   results, cacheVars, pureVars>>

\* lines 232-260: test 2 returns or throws (caught, line 257); execution goes
\* on at line 268 with results still empty.
Diagnostic2Done ==
    /\ pc = "diagnostic2"
    /\ \E ok \in BOOLEAN :
          failed' = IF ok THEN failed ELSE failed \cup {"diagnostic2"}
    /\ AfterEmptyResults
    /\ UNCHANGED <<filters, preprocessed, callerLimit, normalizedQuery, vendorNames,
                   limit, whereConditions, replacements, table, matched, rawResults,
                   results, cacheVars, pureVars>>

\* lines 283-356: the direct test returns or throws (caught, line 306); the
\* empty results are mapped and returned.
DirectTestDone ==
    /\ pc = "directTest"
    /\ \E ok \in BOOLEAN :
          failed' = IF ok THEN failed ELSE failed \cup {"directTest"}
    /\ Return(ToSearchResults(results))
    /\ UNCHANGED <<filters, preprocessed, callerLimit, normalizedQuery, vendorNames,
                   limit, whereConditions, replacements, table, matched, rawResults,
                   results, calls, cacheVars, pureVars>>

\* lines 314-356: the filter-only query returns the rows newest first, cut to
\* LIMIT :limit, each with similarityScore 1.0; they are mapped and returned.
\* The store accepts no negative LIMIT.
FilterQueryReturns ==
    /\ pc = "filterQuery"
    /\ limit >= 0
    /\ \E rows \in Stores :
         LET cand == FilterCandidates(rows, whereConditions, replacements)
         IN \E order \in DateDescOrders(cand) :
              LET raw == LimitTo([i \in 1..Len(order) |-> Project(order[i], 1)], limit)
              IN /\ table' = rows
                 /\ matched' = cand
                 /\ rawResults' = raw
                 /\ results' = raw
                 /\ Return(ToSearchResults(raw))
    /\ UNCHANGED <<filters, preprocessed, callerLimit, normalizedQuery, vendorNames,
                   limit, whereConditions, replacements, calls, failed, cacheVars, pureVars>>

\* line 314 throws (store unreachable, query error such as a negative LIMIT);
\* the outer catch rethrows (lines 357-360).
FilterQueryFails ==
    /\ pc = "filterQuery"
    /\ failed' = failed \cup {"filterQuery"}
    /\ Throw
    /\ UNCHANGED <<filters, preprocessed, callerLimit, normalizedQuery, vendorNames,
                   limit, whereConditions, replacements, table, matched, rawResults,
                   results, calls, cacheVars, pureVars>>

SearchNext ==
    \/ MergeFilters
    \/ Dispatch
    \/ EmbeddingDone
    \/ MainQueryReturns
    \/ MainQueryFails
    \/ Diagnostic1Done
    \/ Diagnostic2Done
    \/ DirectTestDone
    \/ FilterQueryReturns
    \/ FilterQueryFails

----------------------------------------------------------------------------
(* Part 2: the vocabulary cache of FuzzyMatchingService *)

\* The instants the clock is sampled at: each multiple of the TTL and the
\* millisecond before it.
ClockValues ==
    {t \in {k * CACHE_TTL_MS + e : k \in 0..MaxPeriods, e \in {-1, 0}} : t >= 0}

\* The correctQuery calls that may be in flight together.
Callers == 1..MaxCalls

\* What findAll hands back for the grouped name column: names, blank ones too.
RawNames == SUBSET {"", "Gaurav"}

\* .filter((name) => name?.trim()) (lines 547-549 and 565-567)
NonBlank(names) == {n \in names : n # ""}

\* new Fuse(list, ...) (lines 552-556 and 570-574): the index over a list.
Fuse(list) == {list}

\* A call slot with no request in it.
\* now is the instant read at line 531, kept while the call still needs it;
\* before is the cache as it was when the refresh attempt began, swallowed
\* tells that the catch of lines 578-580 ran.
NoCall == [pc |-> "idle", now |-> 0, fetches |-> 0, before |-> {},
           swallowed |-> FALSE]

\* The five fields of lines 46-50, without the record of who wrote them.
Snapshot(k) ==
    [vendorList |-> k.vendorList, productList |-> k.productList,
     vendorFuse |-> k.vendorFuse, productFuse |-> k.productFuse,
     lastCacheUpdate |-> k.lastCacheUpdate]

\* The refresh attempt of caller c that read the clock at instant t.
RefreshId(c, t) == IF recording THEN <<c, t>> ELSE "init"

\* The cache as a refresh attempt finds it.
Remember(k) == IF recording THEN {Snapshot(k)} ELSE {}

\* The test of lines 534-537 with <= in place of <.
CacheStillValidInclusive(last, t) == Has(last) /\ (t - Val(last)) <= CACHE_TTL_MS

\* this.lastCacheUpdate && (now - lastCacheUpdate) < CACHE_TTL_MS (lines 534-535)
CacheStillValid(last, t) == Has(last) /\ (t - Val(last)) < CACHE_TTL_MS

\* The field initialisers of lines 46-50, and no call in flight.
CacheIdle ==
    /\ cache = [vendorList |-> {}, productList |-> {}, vendorFuse |-> {},
                productFuse |-> {}, lastCacheUpdate |-> {},
                writtenBy |-> [vendors |-> "init", products |-> "init",
                               stamp |-> "init"]]
    /\ now = 0
    /\ refresh = [c \in Callers |-> NoCall]
    /\ recording = FALSE

\* No search request: the variables of Part 1 at rest.
SearchQuiescent ==
    /\ pc = "none"
    /\ filters = Consumed
    /\ preprocessed = Consumed
    /\ callerLimit = {}
    /\ normalizedQuery = ""
    /\ vendorNames = <<>>
    /\ limit = 0
    /\ whereConditions = <<>>
    /\ replacements = [limit |-> 0, branchId |-> {}, dateFrom |-> {}, dateTo |-> {},
                       amountMin |-> {}, amountMax |-> {}]
    /\ table = {}
    /\ matched = {}
    /\ rawResults = <<>>
    /\ results = <<>>
    /\ returned = <<>>
    /\ outcome = "pending"
    /\ calls = <<>>
    /\ failed = {}

\* Time passes.
Tick ==
    /\ \E t \in ClockValues : t > now /\ now' = t
    /\ UNCHANGED <<cache, refresh, searchVars, recording, pureVars>>

\* correctQuery with a blank query: line 74 returns before the refresh.
CorrectQueryBlank(c) ==
    /\ refresh[c].pc \in {"idle", "done"}
    /\ refresh' = [refresh EXCEPT ![c] = [NoCall EXCEPT !.pc = "done"]]
    /\ UNCHANGED <<cache, now, searchVars, recording, pureVars>>

\* correctQuery with a non-blank query, up to the first await of
\* refreshEntityCache (lines 74-540): the clock is read, the cache is found
\* valid (refreshEntityCache returns) or the vendor fetch is issued.
CorrectQuery(c) ==
    /\ refresh[c].pc \in {"idle", "done"}
    /\ IF CacheStillValid(cache.lastCacheUpdate, now)
       THEN refresh' = [refresh EXCEPT ![c] = [NoCall EXCEPT !.pc = "entities"]]
       ELSE refresh' = [refresh EXCEPT ![c] =
                          [NoCall EXCEPT !.pc = "fetchVendors", !.now = now,
                                         !.fetches = 1,
                                         !.before = Remember(cache)]]
    /\ UNCHANGED <<cache, now, searchVars, recording, pureVars>>

\* lines 541-563: the vendor names arrive, vendorList and vendorFuse are
\* assigned and the product fetch is issued.
VendorsFetched(c) ==
    /\ refresh[c].pc = "fetchVendors"
    /\ \E vendors \in RawNames :
          cache' = [cache EXCEPT !.vendorList = NonBlank(vendors),
                                 !.vendorFuse = Fuse(NonBlank(vendors)),
                                 !.writtenBy.vendors = RefreshId(c, refresh[c].now)]
    /\ refresh' = [refresh EXCEPT ![c].pc = "fetchProducts", ![c].fetches = 2]
    /\ UNCHANGED <<now, searchVars, recording, pureVars>>

\* lines 565-577: the product names arrive, productList and productFuse are
\* assigned and lastCacheUpdate becomes the instant read at line 531.
ProductsFetched(c) ==
    /\ refresh[c].pc = "fetchProducts"
    /\ \E products \in RawNames :
          cache' = [cache EXCEPT !.productList = NonBlank(products),
                                 !.productFuse = Fuse(NonBlank(products)),
                                 !.lastCacheUpdate = {refresh[c].now},
                                 !.writtenBy.products = RefreshId(c, refresh[c].now),
                                 !.writtenBy.stamp = RefreshId(c, refresh[c].now)]
    /\ refresh' = [refresh EXCEPT ![c].pc = "entities", ![c].now = 0,
                                  ![c].before = {}]
    /\ UNCHANGED <<now, searchVars, recording, pureVars>>

\* lines 578-580: a fetch rejects; the error is logged and the call goes on.
FetchFails(c) ==
    /\ refresh[c].pc \in {"fetchVendors", "fetchProducts"}
    /\ refresh' = [refresh EXCEPT ![c].pc = "entities", ![c].now = 0,
                                  ![c].before = {}, ![c].swallowed = TRUE]
    /\ UNCHANGED <<cache, now, searchVars, recording, pureVars>>

\* lines 82-84: correctMultiWordEntities reads vendorList and productList
\* (lines 155 and 169); the word loop then awaits the phonetic lookup of its
\* first word (lines 129, 303, 444).
CorrectMultiWordEntities(c) ==
    /\ refresh[c].pc = "entities"
    /\ refresh' = [refresh EXCEPT ![c] = [NoCall EXCEPT !.pc = "words"]]
    /\ UNCHANGED <<cache, now, searchVars, recording, pureVars>>

\* lines 88-139: the phonetic lookups answer, the loop reads vendorList,
\* vendorFuse and productFuse for each word (lines 378-410) and the corrected
\* query is returned.
CorrectWords(c) ==
    /\ refresh[c].pc = "words"
    /\ refresh' = [refresh EXCEPT ![c] = [NoCall EXCEPT !.pc = "done"]]
    /\ UNCHANGED <<cache, now, searchVars, recording, pureVars>>

CacheNext ==
    \/ Tick
    \/ \E c \in Callers : CorrectQueryBlank(c)
    \/ \E c \in Callers : CorrectQuery(c)
    \/ \E c \in Callers : VendorsFetched(c)
    \/ \E c \in Callers : ProductsFetched(c)
    \/ \E c \in Callers : FetchFails(c)
    \/ \E c \in Callers : CorrectMultiWordEntities(c)
    \/ \E c \in Callers : CorrectWords(c)

\* No pure function under evaluation.
PureIdle == fn = "none" /\ arg = <<>> /\ out = <<>>

Init == SearchInit /\ CacheIdle /\ PureIdle
Next == SearchNext
Spec == Init /\ [][Next]_vars

InitCache == SearchQuiescent /\ CacheIdle /\ PureIdle
SpecCache == InitCache /\ [][CacheNext]_vars

\* The same service with the history fields kept: what each refresh attempt
\* found and which attempt wrote each part of the cache.
CacheIdleRecording ==
    /\ cache = [vendorList |-> {}, productList |-> {}, vendorFuse |-> {},
                productFuse |-> {}, lastCacheUpdate |-> {},
                writtenBy |-> [vendors |-> "init", products |-> "init",
                               stamp |-> "init"]]
    /\ now = 0
    /\ refresh = [c \in Callers |-> NoCall]
    /\ recording = TRUE

InitCacheHistory == SearchQuiescent /\ CacheIdleRecording /\ PureIdle
SpecCacheHistory == InitCacheHistory /\ [][CacheNext]_vars

----------------------------------------------------------------------------
(* Part 3: the pure text functions of FuzzyMatchingService.  A word is the  *)
(* sequence of its characters, a query or a name the sequence of its words  *)
(* (the strings are trimmed and their words separated by single spaces).    *)

LowerLetters == <<"a", "b", "c", "d", "e", "f", "g", "h", "i", "j", "k", "l", "m", "n", "o", "p", "q", "r", "s", "t", "u", "v", "w", "x", "y", "z">>
UpperLetters == <<"A", "B", "C", "D", "E", "F", "G", "H", "I", "J", "K", "L", "M", "N", "O", "P", "Q", "R", "S", "T", "U", "V", "W", "X", "Y", "Z">>
Digits == {"0", "1", "2", "3", "4", "5", "6", "7", "8", "9"}

\* String.prototype.toLowerCase / toUpperCase, character by character.
LetterIndex(letters, ch) == CHOOSE i \in 1..Len(letters) : letters[i] = ch
toLowerCaseChar(ch) ==
    IF ch \in Range(UpperLetters) THEN LowerLetters[LetterIndex(UpperLetters, ch)] ELSE ch
toUpperCaseChar(ch) ==
    IF ch \in Range(LowerLetters) THEN UpperLetters[LetterIndex(LowerLetters, ch)] ELSE ch
toLowerCase(word) == [i \in 1..Len(word) |-> toLowerCaseChar(word[i])]
toUpperCase(word) == [i \in 1..Len(word) |-> toUpperCaseChar(word[i])]

Min3(x, y, z) == IF x <= y /\ x <= z THEN x ELSE IF y <= z THEN y ELSE z

\* One row of the matrix of levenshteinDistance (lines 597-609): row i from
\* row i - 1, filled from column 1 upwards; a row is indexed from 1, column j
\* of the code is element j + 1.
RECURSIVE LevenshteinRow(_, _, _, _)
LevenshteinRow(prev, a, bChar, row) ==
    LET j == Len(row)
    IN IF j > Len(a) THEN row
       ELSE LevenshteinRow(prev, a, bChar,
              Append(row, IF bChar = a[j] THEN prev[j]
                          ELSE Min3(prev[j] + 1, row[j] + 1, prev[j + 1] + 1)))

RECURSIVE LevenshteinRows(_, _, _, _)
LevenshteinRows(prev, a, b, i) ==
    IF i > Len(b) THEN prev
    ELSE LevenshteinRows(LevenshteinRow(prev, a, b[i], <<i>>), a, b, i + 1)

\* levenshteinDistance(a, b) (lines 586-612): matrix[b.length][a.length]
levenshteinDistance(a, b) ==
    LevenshteinRows([j \in 1..(Len(a) + 1) |-> j - 1], a, b, 1)[Len(a) + 1]

MaxOf(x, y) == IF x >= y THEN x ELSE y

\* similarity <= 0.6 in place of similarity < 0.6.
SimilarityAtMostThreshold(dist, maxLen) == 10 * (maxLen - dist) <= 6 * maxLen

\* 1 - (dist / maxLen) < 0.6 (lines 206-209).  In IEEE doubles the test gives
\* the same answer as this exact comparison for every maxLen from 1 to 200.
SimilarityBelowThreshold(dist, maxLen) == 10 * (maxLen - dist) < 6 * maxLen

\* The inner loop of lines 200-214 from word pair j on, then the test of line
\* 217: allMatch && totalDistance <= targetLen * 2.
RECURSIVE WindowAccepted(_, _, _, _)
WindowAccepted(candidateWords, targetWords, j, totalDistance) ==
    IF j > Len(targetWords) THEN totalDistance <= Len(targetWords) * 2
    ELSE LET dist == levenshteinDistance(toLowerCase(candidateWords[j]),
                                         toLowerCase(targetWords[j]))
             maxLen == MaxOf(Len(candidateWords[j]), Len(targetWords[j]))
         IN IF SimilarityBelowThreshold(dist, maxLen) THEN FALSE
            ELSE WindowAccepted(candidateWords, targetWords, j + 1,
                                totalDistance + dist)

\* The outer loop of lines 193-220 from window i (counted from 0) on.
RECURSIVE SlideWindows(_, _, _)
SlideWindows(queryWords, targetWords, i) ==
    IF i > Len(queryWords) - Len(targetWords) THEN {}
    ELSE LET candidateWords == SubSeq(queryWords, i + 1, i + Len(targetWords))
         IN IF WindowAccepted(candidateWords, targetWords, 1, 0)
            THEN {candidateWords}
            ELSE SlideWindows(queryWords, targetWords, i + 1)

\* findFuzzyPhrase(query, targetPhrase) (lines 187-224): the matched words of
\* the query, or {} for null.
findFuzzyPhrase(queryWords, targetWords) == SlideWindows(queryWords, targetWords, 0)

\* The words the model's queries are made of.
FuzzyTokens ==
    {<<"t", "a", "t", "a">>,
     <<"T", "o", "t", "a">>,
     <<"t", "o", "t", "o">>,
     <<"s", "t", "e", "e", "l">>,
     <<"s", "t", "e", "a", "l">>,
     <<"s", "t", "a", "l", "l">>,
     <<"s", "t", "a", "l", "k">>,
     <<"r", "e", "l", "i", "a", "n", "c", "e">>,
     <<"r", "e", "l", "a", "i", "m", "c", "e">>,
     <<"r", "o", "l", "a", "i", "m", "c", "e">>}

\* The multi-word names looked for.
TargetPhrases ==
    {<<<<"T", "a", "t", "a">>, <<"S", "t", "e", "e", "l">>>>,
     <<<<"r", "e", "l", "i", "a", "n", "c", "e">>, <<"s", "t", "e", "e", "l">>>>}

RECURSIVE SeqsUpTo(_, _)
SeqsUpTo(S, n) ==
    IF n = 0 THEN {<<>>}
    ELSE LET shorter == SeqsUpTo(S, n - 1)
         IN shorter \cup {Append(q, x) : q \in {r \in shorter : Len(r) = n - 1}, x \in S}

FuzzyQueries == {q \in SeqsUpTo(FuzzyTokens, MaxQueryTokens) : Len(q) >= 1}

ApplyFindFuzzyPhrase ==
    /\ fn = "findFuzzyPhrase" /\ out = <<>>
    /\ out' = <<findFuzzyPhrase(arg.query, arg.targetPhrase)>>
    /\ UNCHANGED <<fn, arg, searchVars, cacheVars>>

\* preserveCase(original, corrected) (lines 617-628); corrected is not empty.
preserveCase(original, corrected) ==
    IF original = toUpperCase(original) THEN toUpperCase(corrected)
    ELSE IF original = toLowerCase(original) THEN toLowerCase(corrected)
    ELSE IF original[1] = toUpperCaseChar(original[1])
         THEN <<toUpperCaseChar(corrected[1])>> \o toLowerCase(Tail(corrected))
    ELSE toLowerCase(corrected)

\* The tokens whose case pattern is carried over, and the dictionary words.
CaseOriginals ==
    {<<"G", "O", "W", "R", "A", "V">>,
     <<"G", "o", "w", "r", "a", "v">>,
     <<"g", "o", "w", "r", "a", "v">>,
     <<"g", "O", "W", "R", "A", "V">>,
     <<"2", "n", "D">>,
     <<"1", "2", "3">>}
CaseCorrected == {<<"g", "a", "u", "r", "a", "v">>, <<"S", "e", "c", "o", "n", "d">>}

ApplyPreserveCase ==
    /\ fn = "preserveCase" /\ out = <<>>
    /\ out' = <<preserveCase(arg.original, arg.corrected)>>
    /\ UNCHANGED <<fn, arg, searchVars, cacheVars>>

\* The first place (counted from 1) where the words of phrase stand in words,
\* 0 when nowhere: String.prototype.indexOf on single-spaced text whose words
\* are no suffix or prefix of one another.
IndexOfPhrase(words, phrase) ==
    LET at == {i \in 1..(Len(words) - Len(phrase) + 1) :
                  SubSeq(words, i, i + Len(phrase) - 1) = phrase}
    IN IF at = {} THEN 0 ELSE SetMin(at)

\* result.replace(match, name) (lines 162 and 175): the first occurrence only.
ReplaceFirst(words, match, name) ==
    LET i == IndexOfPhrase(words, match)
    IN IF i = 0 THEN words
       ELSE SubSeq(words, 1, i - 1) \o name
            \o SubSeq(words, i + Len(match), Len(words))

\* The two loops of correctMultiWordEntities (lines 155-180) over the names
\* from index k on; state is [corrected, matchedEntities].
RECURSIVE CorrectEntitiesFrom(_, _, _)
CorrectEntitiesFrom(state, names, k) ==
    IF k > Len(names) THEN state
    ELSE LET name == names[k]
             match == findFuzzyPhrase(state.corrected, name)
         IN IF Len(name) < 2 \/ ~Has(match)
            THEN CorrectEntitiesFrom(state, names, k + 1)
            ELSE CorrectEntitiesFrom(
                   [corrected |-> ReplaceFirst(state.corrected, Val(match), name),
                    matchedEntities |-> Append(state.matchedEntities, name)],
                   names, k + 1)

\* correctMultiWordEntities(query) (lines 146-182) on the cached lists.
correctMultiWordEntities(query, vendorList, productList) ==
    CorrectEntitiesFrom(
        CorrectEntitiesFrom([corrected |-> query, matchedEntities |-> <<>>],
                            vendorList, 1),
        productList, 1)

\* lines 109-115: the word is one of the words of a matched entity that
\* stands in the query.
IsPartOfMatchedEntity(word, correctedQuery, matchedEntities) ==
    \E e \in 1..Len(matchedEntities) :
        LET entityWords == [i \in 1..Len(matchedEntities[e]) |->
                               toLowerCase(matchedEntities[e][i])]
            queryLower == [i \in 1..Len(correctedQuery) |->
                               toLowerCase(correctedQuery[i])]
        IN /\ toLowerCase(word) \in Range(entityWords)
           /\ IndexOfPhrase(queryLower, entityWords) > 0

\* lines 96-121: the word loop pushes the word as it is (too short, a number,
\* holding a currency or other special sign, or part of a matched entity).
KeptAsIs(word, correctedQuery, matchedEntities) ==
    \/ Len(word) < 3
    \/ \A i \in 1..Len(word) : word[i] \in Digits
    \/ \E i \in 1..Len(word) : word[i] \in {"$", "@", "#", "%"}
    \/ IsPartOfMatchedEntity(word, correctedQuery, matchedEntities)

\* correctQuery(query) once the cache is fresh (lines 81-139), for the queries
\* whose every word the loop keeps as it is: {the corrected query}.  For any
\* other query the answer depends on the phonetic lookup in the store and on
\* the Fuse indexes (line 129) and is left open: {}.
correctQuery(query, vendorList, productList) ==
    LET entities == correctMultiWordEntities(query, vendorList, productList)
    IN IF \A i \in 1..Len(entities.corrected) :
             KeptAsIs(entities.corrected[i], entities.corrected,
                      entities.matchedEntities)
       THEN {entities.corrected}
       ELSE {}

\* The cached names: vendors similar to one another, in every order.
VendorNames ==
    {<<<<"T", "a", "t", "a">>, <<"S", "t", "e", "e", "l">>>>,
     <<<<"T", "a", "r", "a">>, <<"S", "t", "e", "e", "l">>>>,
     <<<<"D", "a", "t", "a">>, <<"S", "t", "e", "e", "l">>>>}
ProductNames == {<<<<"S", "t", "e", "e", "l">>, <<"R", "o", "d">>>>}
VendorLists == UNION {Perms(S) : S \in SUBSET VendorNames}
ProductLists == UNION {Perms(S) : S \in SUBSET ProductNames}

\* The words of the queries put to correctQuery.
EntityTokens ==
    {<<"d", "a", "t", "a">>, <<"d", "o", "t", "a">>, <<"t", "a", "t", "a">>, <<"s", "t", "e", "e", "l">>, <<"r", "o", "d">>}
EntityQueries == {q \in SeqsUpTo(EntityTokens, MaxQueryTokens - 1) : Len(q) >= 2}

\* correctQuery applied to the query, then to its own answer.
ApplyCorrectQuery ==
    /\ fn = "correctQuery" /\ Len(out) < 2
    /\ Len(out) = 1 => Has(out[1])
    /\ out' = Append(out, correctQuery(IF out = <<>> THEN arg.query ELSE Val(out[1]),
                                      arg.vendorList, arg.productList))
    /\ UNCHANGED <<fn, arg, searchVars, cacheVars>>

FuzzyInit ==
    /\ out = <<>>
    /\ \/ /\ fn = "findFuzzyPhrase"
          /\ arg \in [query : FuzzyQueries, targetPhrase : TargetPhrases]
       \/ /\ fn = "preserveCase"
          /\ arg \in [original : CaseOriginals, corrected : CaseCorrected]
       \/ /\ fn = "correctQuery"
          /\ arg \in [query : EntityQueries, vendorList : VendorLists,
                      productList : ProductLists]

FuzzyNext ==
    \/ ApplyFindFuzzyPhrase
    \/ ApplyPreserveCase
    \/ ApplyCorrectQuery

\* The cache after a refresh, no call in flight.
InitFuzzy == SearchQuiescent /\ CacheIdle /\ FuzzyInit
SpecFuzzy == InitFuzzy /\ [][FuzzyNext]_vars

----------------------------------------------------------------------------
(* Part 4: the text functions of QueryPreprocessingService.  A text is the  *)
(* sequence of its characters; a word is a text without white space.        *)

\* The white space of /\s+/ and the characters of /[.,!?;:]/g that the texts
\* drawn here contain.
Whitespace == {" "}
Punctuation == {".", ",", "!", "?", ";", ":"}

\* stopWords (lines 783-906): the entries that the texts drawn here can spell.
stopWords ==
    {<<"a">>, <<"a", "n">>, <<"n", "o">>, <<"o", "n">>, <<"i", "n">>,
     <<"t", "o">>, <<"f", "o", "r">>, <<"t", "h", "e">>,
     <<"f", "r", "o", "m">>, <<"f", "i", "n", "d">>, <<"m", "a", "y">>,
     <<"a", "b", "o", "u", "t">>, <<"t", "h", "i", "s">>,
     <<"a", "m", "o", "u", "n", "t">>,
     <<"i", "n", "v", "o", "i", "c", "e">>,
     <<"i", "n", "v", "o", "i", "c", "e", "s">>,
     <<"b", "y">>, <<"w", "i", "t", "h">>, <<"b", "i", "l", "l">>,
     <<"b", "i", "l", "l", "s">>}

\* The k-th smallest element of a set of numbers.
Nth(S, k) == CHOOSE x \in S : Cardinality({y \in S : y < x}) = k - 1

\* The words of a text: its maximal runs of characters other than white space.
WordsOf(text) ==
    LET starts == {i \in 1..Len(text) :
                     text[i] \notin Whitespace /\ (i = 1 \/ text[i - 1] \in Whitespace)}
        ends == {i \in 1..Len(text) :
                   text[i] \notin Whitespace /\ (i = Len(text) \/ text[i + 1] \in Whitespace)}
    IN [k \in 1..Cardinality(starts) |-> SubSeq(text, Nth(starts, k), Nth(ends, k))]

\* String.prototype.split(/\s+/): the pieces between the maximal runs of
\* white space; a run at either end leaves an empty piece there.
split(text) ==
    IF text = <<>> THEN <<<<>>>>
    ELSE (IF text[1] \in Whitespace THEN <<<<>>>> ELSE <<>>)
         \o WordsOf(text)
         \o (IF text[Len(text)] \in Whitespace THEN <<<<>>>> ELSE <<>>)

\* Array.prototype.join.
RECURSIVE join(_, _)
join(words, separator) ==
    IF words = <<>> THEN <<>>
    ELSE IF Len(words) = 1 THEN words[1]
    ELSE words[1] \o separator \o join(Tail(words), separator)

\* String.prototype.trim.
trim(text) ==
    LET inked == {i \in 1..Len(text) : text[i] \notin Whitespace}
    IN IF inked = {} THEN <<>> ELSE SubSeq(text, SetMin(inked), SetMax(inked))

\* word.replace(/[.,!?;:]/g, '').
StripPunctuation(word) == SelectSeq(word, LAMBDA ch : ch \notin Punctuation)

KeepsWordUnstripped(word) ==
    LET cleaned == toLowerCase(word)
    IN Len(cleaned) > 0 /\ cleaned \notin stopWords

\* The filter of removeStopWords (lines 1590-1593).
KeepsWord(word) ==
    LET cleaned == StripPunctuation(toLowerCase(word))
    IN Len(cleaned) > 0 /\ cleaned \notin stopWords

\* removeStopWords (lines 1586-1596).
removeStopWords(query) == join(SelectSeq(split(query), KeepsWord), <<" ">>)

\* The characters and the texts put to removeStopWords.
StopWordAlphabet == {" ", "a", "n", "A", ".", "x"}
StopWordTexts == SeqsUpTo(StopWordAlphabet, MaxTextLen)

\* removeStopWords applied to the text, then to its own answer.
ApplyRemoveStopWords ==
    /\ fn = "removeStopWords" /\ Len(out) < 2
    /\ out' = Append(out, removeStopWords(IF out = <<>> THEN arg.query ELSE out[1]))
    /\ UNCHANGED <<fn, arg, searchVars, cacheVars>>

\* Decimal digits, in order of value.
DigitChars == <<"0", "1", "2", "3", "4", "5", "6", "7", "8", "9">>
DigitValue(ch) == LetterIndex(DigitChars, ch) - 1

IsDigits(word, shortest, longest) ==
    /\ Len(word) >= shortest /\ Len(word) <= longest
    /\ \A i \in 1..Len(word) : word[i] \in Digits

RECURSIVE ParseDigits(_, _)
ParseDigits(text, value) ==
    IF text = <<>> THEN value
    ELSE ParseDigits(Tail(text), 10 * value + DigitValue(text[1]))

\* parseInt(text, 10) of a text of digits.
parseInt(text) == ParseDigits(text, 0)

\* parseAmount (lines 1322-1326) of a text of digits and commas: the commas
\* are dropped, no digit left gives NaN and so 0.
parseAmount(amountStr) ==
    LET cleaned == SelectSeq(amountStr, LAMBDA ch : ch # ",")
    IN IF cleaned = <<>> THEN 0 ELSE ParseDigits(cleaned, 0)

\* String(n) of a number n >= 0.
RECURSIVE String(_)
String(n) ==
    IF n < 10 THEN <<DigitChars[n + 1]>>
    ELSE String(n \div 10) \o <<DigitChars[(n % 10) + 1]>>

\* String.prototype.padStart.
RECURSIVE padStart(_, _, _)
padStart(text, targetLength, padString) ==
    IF Len(text) >= targetLength THEN text
    ELSE padStart(padString \o text, targetLength, padString)

\* A Date is its local year, month index (0-11) and day of the month.
IsLeapYear(year) == (year % 4 = 0 /\ year % 100 # 0) \/ year % 400 = 0

DaysInMonth(year, month) ==
    IF month = 1 THEN (IF IsLeapYear(year) THEN 29 ELSE 28)
    ELSE IF month \in {3, 5, 8, 10} THEN 30
    ELSE 31

\* new Date(year, monthIndex, day) and Date.prototype.setDate: a month index
\* outside 0..11 carries into the year, a day outside the month carries into
\* the neighbouring months.
RECURSIVE Date(_, _, _)
Date(year, month, day) ==
    IF month < 0 \/ month > 11
    THEN Date(year + (month \div 12), month % 12, day)
    ELSE IF day < 1
    THEN LET previous == Date(year, month - 1, 1)
         IN Date(previous.year, previous.month,
                 day + DaysInMonth(previous.year, previous.month))
    ELSE IF day > DaysInMonth(year, month)
    THEN Date(year, month + 1, day - DaysInMonth(year, month))
    ELSE [year |-> year, month |-> month, day |-> day]

\* The evaluation dates: the first, an inner and the last day of every month
\* of the years drawn; 2023 begins on a Sunday and 2024 is a leap year.
EvaluationYears == 2023..(2022 + MaxYears)
EvaluationDates ==
    {date \in [year : EvaluationYears, month : 0..11, day : {1, 15, 28, 29, 30, 31}] :
        date.day <= DaysInMonth(date.year, date.month)}

\* Days from 1 January 2023 to the first day of the month.
RECURSIVE DaysBefore(_, _)
DaysBefore(year, month) ==
    IF month > 0 THEN DaysBefore(year, month - 1) + DaysInMonth(year, month - 1)
    ELSE IF year > 2023
    THEN DaysBefore(year - 1, 0) + (IF IsLeapYear(year - 1) THEN 366 ELSE 365)
    ELSE IF year < 2023
    THEN DaysBefore(year + 1, 0) - (IF IsLeapYear(year) THEN 366 ELSE 365)
    ELSE 0

DayNumber(date) == DaysBefore(date.year, date.month) + date.day - 1

\* Date.prototype.getDay: 0 is Sunday.
getDay(date) == DayNumber(date) % 7

\* formatDate (lines 1601-1606).
formatDate(date) ==
    String(date.year) \o <<"-">>
    \o padStart(String(date.month + 1), 2, <<"0">>) \o <<"-">>
    \o padStart(String(date.day), 2, <<"0">>)

\* monthNames (lines 743-746).
monthNames ==
    <<<<"j", "a", "n", "u", "a", "r", "y">>,
      <<"f", "e", "b", "r", "u", "a", "r", "y">>,
      <<"m", "a", "r", "c", "h">>,
      <<"a", "p", "r", "i", "l">>,
      <<"m", "a", "y">>,
      <<"j", "u", "n", "e">>,
      <<"j", "u", "l", "y">>,
      <<"a", "u", "g", "u", "s", "t">>,
      <<"s", "e", "p", "t", "e", "m", "b", "e", "r">>,
      <<"o", "c", "t", "o", "b", "e", "r">>,
      <<"n", "o", "v", "e", "m", "b", "e", "r">>,
      <<"d", "e", "c", "e", "m", "b", "e", "r">>>>

\* getMonthIndex (lines 1196-1199).
getMonthIndex(monthName) ==
    IF toLowerCase(monthName) \in Range(monthNames)
    THEN LetterIndex(monthNames, toLowerCase(monthName)) - 1
    ELSE 0

\* The regular expressions of the service are matched word by word: a pattern
\* is a sequence of classes of words, standing for a regular expression whose
\* parts are separated by \s+ and which begins and ends at a word boundary.
\* The texts drawn are lower case and no expression matches part of a word.

Fields(word, separators) ==
    LET places == <<0>> \o SelectSeq([i \in 1..Len(word) |-> i],
                                     LAMBDA i : word[i] \in separators)
                  \o <<Len(word) + 1>>
    IN [k \in 1..(Len(places) - 1) |->
          SubSeq(word, places[k] + 1, places[k + 1] - 1)]

HasSuffixIn(word, suffixes) ==
    \E suffix \in suffixes :
        /\ Len(word) >= Len(suffix)
        /\ SubSeq(word, Len(word) - Len(suffix) + 1, Len(word)) = suffix

\* \d+(?:[.,]\d+)? for texts without a decimal point.
IsNumber(word) ==
    LET fields == Fields(word, {","})
    IN /\ Len(fields) \in {1, 2}
       /\ \A k \in 1..Len(fields) : IsDigits(fields[k], 1, Len(word))

InClass(word, class) ==
    CASE class = "relativeDay" ->
           word \in {<<"t", "o", "d", "a", "y">>,
                     <<"y", "e", "s", "t", "e", "r", "d", "a", "y">>,
                     <<"t", "o", "m", "o", "r", "r", "o", "w">>}
      [] class = "last" -> word = <<"l", "a", "s", "t">>
      [] class = "lastNext" ->
           word \in {<<"l", "a", "s", "t">>, <<"n", "e", "x", "t">>}
      [] class = "month" -> word = <<"m", "o", "n", "t", "h">>
      [] class = "week" -> word = <<"w", "e", "e", "k">>
      [] class = "unit" ->
           \/ word \in {<<"w", "e", "e", "k">>, <<"m", "o", "n", "t", "h">>,
                        <<"y", "e", "a", "r">>}
           \/ /\ HasSuffixIn(word, {<<"d", "a", "y">>})
              /\ SubSeq(word, 1, Len(word) - 3) \in
                   {<<"m", "o", "n">>, <<"t", "u", "e", "s">>,
                    <<"w", "e", "d", "n", "e", "s">>, <<"t", "h", "u", "r", "s">>,
                    <<"f", "r", "i">>, <<"s", "a", "t", "u", "r">>, <<"s", "u", "n">>}
           \/ word \in Range(monthNames)
      [] class = "thisThat" ->
           word \in {<<"t", "h", "i", "s">>, <<"t", "h", "a", "t">>}
      [] class = "period" ->
           word \in {<<"d", "a", "y">>, <<"w", "e", "e", "k">>,
                     <<"m", "o", "n", "t", "h">>, <<"y", "e", "a", "r">>}
      [] class = "dayMonthYear" ->
           LET fields == Fields(word, {"-", "/"})
           IN /\ Len(fields) = 3
              /\ IsDigits(fields[1], 1, 2) /\ IsDigits(fields[2], 1, 2)
              /\ IsDigits(fields[3], 2, 4)
      [] class = "yearMonthDay" ->
           LET fields == Fields(word, {"-", "/"})
           IN /\ Len(fields) = 3
              /\ IsDigits(fields[1], 4, 4) /\ IsDigits(fields[2], 1, 2)
              /\ IsDigits(fields[3], 1, 2)
      [] class = "monthName" -> word \in Range(monthNames)
      [] class = "monthAbbreviated" ->
           /\ Len(word) >= 3
           /\ SubSeq(word, 1, 3) \in {SubSeq(monthNames[k], 1, 3) : k \in 1..12}
           /\ \A i \in 4..Len(word) : word[i] \in Range(LowerLetters)
      [] class = "day" -> IsDigits(word, 1, 2)
      [] class = "dayComma" ->
           \/ IsDigits(word, 1, 2)
           \/ /\ HasSuffixIn(word, {<<",">>})
              /\ IsDigits(SubSeq(word, 1, Len(word) - 1), 1, 2)
      [] class = "dayOrdinal" ->
           \/ IsDigits(word, 1, 2)
           \/ /\ HasSuffixIn(word, {<<"s", "t">>, <<"n", "d">>, <<"r", "d">>, <<"t", "h">>})
              /\ IsDigits(SubSeq(word, 1, Len(word) - 2), 1, 2)
      [] class = "year" -> IsDigits(word, 4, 4)
      [] class = "between" -> word = <<"b", "e", "t", "w", "e", "e", "n">>
      [] class = "and" -> word = <<"a", "n", "d">>
      [] class = "from" -> word = <<"f", "r", "o", "m">>
      [] class = "to" -> word = <<"t", "o">>
      [] class = "connector" ->
           word \in {<<"a", "n", "d">>, <<"t", "o">>, <<"f", "r", "o", "m">>,
                     <<"f", "o", "r">>, <<"b", "e", "t", "w", "e", "e", "n">>}
      [] class = "rangeStart" ->
           word \in {<<"b", "e", "t", "w", "e", "e", "n">>, <<"f", "r", "o", "m">>}
      [] class = "rangeLink" -> word \in {<<"a", "n", "d">>, <<"t", "o">>}
      [] class = "number" -> IsNumber(word)
      [] class = "currencySign" -> word \in {<<"$">>}
      [] class = "currencySignNumber" ->
           Len(word) >= 2 /\ word[1] = "$" /\ IsNumber(Tail(word))
      [] class = "currencyWord" ->
           word \in {<<"r", "u", "p", "e", "e">>, <<"r", "u", "p", "e", "e", "s">>,
                     <<"r", "s">>, <<"r", "s", ".">>,
                     <<"d", "o", "l", "l", "a", "r">>,
                     <<"d", "o", "l", "l", "a", "r", "s">>,
                     <<"u", "s", "d">>, <<"e", "u", "r">>, <<"g", "b", "p">>}
      [] class = "approximately" ->
           word \in {<<"a", "r", "o", "u", "n", "d">>, <<"a", "b", "o", "u", "t">>,
                     <<"a", "p", "p", "r", "o", "x">>,
                     <<"a", "p", "p", "r", "o", "x", "i", "m", "a", "t", "e", "l", "y">>}

\* Whether the words from place i on match the pattern.
MatchesAt(words, i, pattern) ==
    /\ i + Len(pattern) - 1 <= Len(words)
    /\ \A k \in 1..Len(pattern) : InClass(words[i + k - 1], pattern[k])

\* String.prototype.match without the g flag, RegExp.prototype.test: the
\* place of the leftmost match, 0 when there is none.
FirstMatch(words, pattern) ==
    IF \E i \in 1..Len(words) : MatchesAt(words, i, pattern)
    THEN CHOOSE i \in 1..Len(words) :
           /\ MatchesAt(words, i, pattern)
           /\ \A j \in 1..(i - 1) : ~MatchesAt(words, j, pattern)
    ELSE 0

\* text.replace(pattern, ' ') with the g flag, from place i on: the matches
\* from the left, none overlapping another.  blankStart tells whether the text
\* begins with white space after the replacements.
RECURSIVE ReplaceMatches(_, _, _)
ReplaceMatches(text, i, pattern) ==
    IF i > Len(text.words) THEN text
    ELSE IF MatchesAt(text.words, i, pattern)
    THEN ReplaceMatches(
           [words |-> SubSeq(text.words, 1, i - 1)
                      \o SubSeq(text.words, i + Len(pattern), Len(text.words)),
            blankStart |-> text.blankStart \/ i = 1], i, pattern)
    ELSE ReplaceMatches(text, i + 1, pattern)

\* for (const pattern of patterns) cleaned = cleaned.replace(pattern, ' ').
RECURSIVE ReplaceAll(_, _, _)
ReplaceAll(text, patterns, k) ==
    IF k > Len(patterns) THEN text
    ELSE ReplaceAll(ReplaceMatches(text, 1, patterns[k]), patterns, k + 1)

\* What the compromise tagger reports for a text: with "tags" every word for
\* a relative day is a date match of its own and every number standing with
\* a currency sign or word is a money match; with "throws" the call fails and
\* the catch block (lines 1043-1045, 1278-1280) goes on without matches.
NlpOutcomes == {"tags", "throws"}

dateTexts(words, nlp) ==
    IF nlp = "tags" THEN SelectSeq(words, LAMBDA word : InClass(word, "relativeDay"))
    ELSE <<>>

NoDates == [dateFrom |-> {}, dateTo |-> {}]
DateRange(first, last) == [dateFrom |-> {formatDate(first)}, dateTo |-> {formatDate(last)}]

\* today, yesterday, tomorrow (lines 1011-1035): setDate(getDate() -/+ 1).
RelativeDay(word, today) ==
    IF word = <<"t", "o", "d", "a", "y">> THEN today
    ELSE IF word = <<"y", "e", "s", "t", "e", "r", "d", "a", "y">>
    THEN Date(today.year, today.month, today.day - 1)
    ELSE Date(today.year, today.month, today.day + 1)

\* "last <month name>" (lines 1047-1073).
lastNamedMonthRange(monthName, today) ==
    LET monthIndex == getMonthIndex(monthName)
        targetYear == IF monthIndex > today.month THEN today.year - 1 ELSE today.year
    IN DateRange(Date(targetYear, monthIndex, 1), Date(targetYear, monthIndex + 1, 0))

lastMonthRangeSameYear(today) ==
    DateRange(Date(today.year, (today.month + 11) % 12, 1),
              Date(today.year, ((today.month + 11) % 12) + 1, 0))

\* "last month" (lines 1075-1087).
lastMonthRange(today) ==
    DateRange(Date(today.year, today.month - 1, 1), Date(today.year, today.month, 0))

lastWeekRangeThisWeek(today) ==
    LET dayOfWeek == getDay(today)
        daysToLastMonday == IF dayOfWeek = 0 THEN 6 ELSE dayOfWeek - 1
        lastMonday == Date(today.year, today.month, today.day - daysToLastMonday)
        lastSunday == Date(lastMonday.year, lastMonday.month, lastMonday.day + 6)
    IN DateRange(lastMonday, lastSunday)

\* "last week" (lines 1089-1112): the Monday to Sunday before this week.
lastWeekRange(today) ==
    LET dayOfWeek == getDay(today)
        daysToLastMonday == (IF dayOfWeek = 0 THEN 6 ELSE dayOfWeek - 1) + 7
        lastMonday == Date(today.year, today.month, today.day - daysToLastMonday)
        lastSunday == Date(lastMonday.year, lastMonday.month, lastMonday.day + 6)
    IN DateRange(lastMonday, lastSunday)

\* month + year (lines 1114-1135).
monthYearRange(monthName, year) ==
    LET monthIndex == getMonthIndex(monthName)
    IN DateRange(Date(year, monthIndex, 1), Date(year, monthIndex + 1, 0))

\* chrono.parse(query, now) for the texts drawn: one result, in the order of
\* the text, for every YYYY-MM-DD date, every "Month Day, Year" and every
\* word for a relative day; each has a start and none an end.
RECURSIVE chronoParse(_, _, _)
chronoParse(words, i, today) ==
    IF i > Len(words) THEN <<>>
    ELSE IF InClass(words[i], "yearMonthDay")
    THEN LET fields == Fields(words[i], {"-", "/"})
         IN <<Date(parseInt(fields[1]), parseInt(fields[2]) - 1, parseInt(fields[3]))>>
            \o chronoParse(words, i + 1, today)
    ELSE IF MatchesAt(words, i, <<"monthName", "dayComma", "year">>)
    THEN <<Date(parseInt(words[i + 2]), getMonthIndex(words[i]),
                parseInt(SelectSeq(words[i + 1], LAMBDA ch : ch \in Digits)))>>
         \o chronoParse(words, i + 3, today)
    ELSE IF InClass(words[i], "relativeDay")
    THEN <<RelativeDay(words[i], today)>> \o chronoParse(words, i + 1, today)
    ELSE chronoParse(words, i + 1, today)

\* The dates of chrono sorted, first..last (lines 1147-1186).
chronoRange(dates) ==
    IF dates = <<>> THEN NoDates
    ELSE LET days == {DayNumber(dates[k]) : k \in 1..Len(dates)}
         IN DateRange(CHOOSE date \in Range(dates) : DayNumber(date) = Val(extractDates(days).dateFrom),
                      CHOOSE date \in Range(dates) : DayNumber(date) = Val(extractDates(days).dateTo))

datesByRuleWeekFirst(words, today) ==
    IF FirstMatch(words, <<"last", "monthName">>) > 0
    THEN lastNamedMonthRange(words[FirstMatch(words, <<"last", "monthName">>) + 1], today)
    ELSE IF FirstMatch(words, <<"last", "week">>) > 0 THEN lastWeekRange(today)
    ELSE IF FirstMatch(words, <<"last", "month">>) > 0 THEN lastMonthRange(today)
    ELSE IF FirstMatch(words, <<"monthName", "year">>) > 0
    THEN monthYearRange(words[FirstMatch(words, <<"monthName", "year">>)],
                        parseInt(words[FirstMatch(words, <<"monthName", "year">>) + 1]))
    ELSE chronoRange(chronoParse(words, 1, today))

\* The rules of extractDates after the tagger (lines 1047-1186), on the
\* words of the lower-case query: the first rule that applies decides.
datesByRule(words, today) ==
    IF FirstMatch(words, <<"last", "monthName">>) > 0
    THEN lastNamedMonthRange(words[FirstMatch(words, <<"last", "monthName">>) + 1], today)
    ELSE IF FirstMatch(words, <<"last", "month">>) > 0 THEN lastMonthRange(today)
    ELSE IF FirstMatch(words, <<"last", "week">>) > 0 THEN lastWeekRange(today)
    ELSE IF FirstMatch(words, <<"monthName", "year">>) > 0
    THEN monthYearRange(words[FirstMatch(words, <<"monthName", "year">>)],
                        parseInt(words[FirstMatch(words, <<"monthName", "year">>) + 1]))
    ELSE chronoRange(chronoParse(words, 1, today))

\* The relative day the tagger reports first decides (lines 1001-1041).
datesByTagger(relative, words, today) ==
    IF relative # <<>>
    THEN DateRange(RelativeDay(toLowerCase(relative[1]), today),
                   RelativeDay(toLowerCase(relative[1]), today))
    ELSE datesByRule(words, today)

\* extractDates (lines 994-1191) on the text.
extractDatesFromText(query, today, nlp) ==
    datesByTagger(dateTexts(WordsOf(query), nlp), WordsOf(toLowerCase(query)), today)

\* datePatterns (lines 1205-1225), in their order.
datePatterns ==
    <<<<"relativeDay">>,
      <<"lastNext", "unit">>,
      <<"thisThat", "period">>,
      <<"dayMonthYear">>,
      <<"yearMonthDay">>,
      <<"monthAbbreviated", "dayComma", "year">>,
      <<"day", "monthAbbreviated", "year">>,
      <<"monthName", "year">>,
      <<"monthAbbreviated", "year">>,
      <<"monthName", "dayOrdinal">>,
      <<"monthAbbreviated", "dayOrdinal">>,
      <<"dayOrdinal", "monthAbbreviated">>,
      <<"dayOrdinal", "monthName">>>>

\* The connector rules (lines 1233-1237): "between and" and "from to" go, and
\* so does one connector word at the end that has white space before it.
dropTrailingConnector(text) ==
    LET n == Len(text.words)
    IN IF n > 0 /\ InClass(text.words[n], "connector") /\ (n > 1 \/ text.blankStart)
       THEN [text EXCEPT !.words = SubSeq(text.words, 1, n - 1)]
       ELSE text

\* removeDateText (lines 1204-1240); the result is trimmed and single-spaced.
removeDateText(query) ==
    LET text == [words |-> WordsOf(query),
                 blankStart |-> query # <<>> /\ query[1] \in Whitespace]
        cleaned == ReplaceAll(text, datePatterns, 1)
        connectors == ReplaceAll(cleaned, <<<<"between", "and">>, <<"from", "to">>>>, 1)
    IN join(dropTrailingConnector(connectors).words, <<" ">>)

\* getAmountPatterns (lines 1331-1340), in their order; a currency sign may
\* stand apart from its number or be joined to it.  The texts drawn hold no
\* decimal point, so the last pattern, \b(\d{4,}\.\d+)\b, matches nowhere.
getAmountPatterns ==
    <<<<"currencySignNumber">>,
      <<"currencySign", "number">>,
      <<"currencyWord", "number">>,
      <<"number", "currencyWord">>,
      <<"rangeStart", "number", "rangeLink", "number">>,
      <<"number", "to", "number">>>>

\* The capture groups of a match at place i: the numbers of the pattern.
Captures(words, i, pattern) ==
    {IF pattern[k] = "currencySignNumber" THEN Tail(words[i + k - 1]) ELSE words[i + k - 1] :
        k \in {j \in 1..Len(pattern) : pattern[j] \in {"number", "currencySignNumber"}}}

\* while ((match = pattern.exec(query)) !== null): every match from the left.
RECURSIVE ExecAll(_, _, _)
ExecAll(words, i, pattern) ==
    IF i > Len(words) THEN {}
    ELSE IF MatchesAt(words, i, pattern)
    THEN Captures(words, i, pattern) \cup ExecAll(words, i + Len(pattern), pattern)
    ELSE ExecAll(words, i + 1, pattern)

PositiveAmounts(texts) == {amount \in {parseAmount(text) : text \in texts} : amount > 0}

\* extractAmountsFromPatterns (lines 1345-1358): the amounts above 0.
extractAmountsFromPatterns(words) ==
    PositiveAmounts(UNION {ExecAll(words, 1, getAmountPatterns[k]) :
                             k \in 1..Len(getAmountPatterns)})

\* The money matches of the tagger (lines 1249-1280): the numbers that stand
\* with a currency sign or word.
moneyAmounts(words, nlp) ==
    IF nlp = "tags"
    THEN PositiveAmounts(UNION {ExecAll(words, 1, getAmountPatterns[k]) : k \in 1..4})
    ELSE {}

rangeMatchBetweenOnly(words) ==
    FirstMatch(words, <<"between", "number", "and", "number">>) > 0

\* query.match(rangePattern) (lines 1293-1294).
rangeMatch(words) ==
    FirstMatch(words, <<"rangeStart", "number", "rangeLink", "number">>) > 0

\* extractAmounts (lines 1245-1317) on the text: the amounts of the tagger
\* and of the patterns, then the policy of lines 1285-1317.
extractAmountsFromText(query, nlp) ==
    LET words == WordsOf(query)
    IN extractAmounts(moneyAmounts(words, nlp) \cup extractAmountsFromPatterns(words),
                      rangeMatch(words))

\* removeAmountText (lines 1364-1379): the result is single-spaced where the
\* code leaves runs of white space; its caller trims it and removeStopWords
\* splits it at runs of white space.
removeAmountText(query) ==
    LET text == [words |-> WordsOf(query), blankStart |-> FALSE]
        patterns == SubSeq(getAmountPatterns, 1, 6) \o <<<<"approximately", "number">>>>
    IN join(ReplaceAll(text, patterns, 1).words, <<" ">>)

\* Step 1 (lines 929-938): the date text goes when a date was found.
withoutDateText(originalQuery, dateInfo) ==
    IF Has(dateInfo.dateFrom) \/ Has(dateInfo.dateTo)
    THEN trim(removeDateText(originalQuery))
    ELSE originalQuery

\* workingQuery when the amounts are extracted (lines 918-938): the trimmed
\* lower-case query, without its date text when a date was found.
workingQueryAfterDates(query, today, nlp) ==
    withoutDateText(toLowerCase(trim(query)),
                    extractDatesFromText(toLowerCase(trim(query)), today, nlp))

\* Steps 2 and 4 (lines 940-956): the amount text goes when an amount was
\* found, then the stop words; the result spreads dateInfo and amountInfo
\* (lines 976-984).
withoutAmountText(workingQuery, dateInfo, amountInfo) ==
    [normalizedQuery |->
         trim(removeStopWords(IF Has(amountInfo.amountMin) \/ Has(amountInfo.amountMax)
                              THEN trim(removeAmountText(workingQuery))
                              ELSE workingQuery)),
     dateFrom |-> dateInfo.dateFrom, dateTo |-> dateInfo.dateTo,
     amountMin |-> amountInfo.amountMin, amountMax |-> amountInfo.amountMax]

afterDateStep(workingQuery, dateInfo, nlp) ==
    withoutAmountText(workingQuery, dateInfo, extractAmountsFromText(workingQuery, nlp))

afterLowerCase(originalQuery, dateInfo, nlp) ==
    afterDateStep(withoutDateText(originalQuery, dateInfo), dateInfo, nlp)

\* preprocessQuery (lines 911-989) on a lower-case text, for which the
\* restoring of the case of vendor and product names (lines 961-971) changes
\* nothing.
preprocessQueryText(query, today, nlp) ==
    IF trim(query) = <<>>
    THEN [normalizedQuery |-> <<>>, dateFrom |-> {}, dateTo |-> {},
          amountMin |-> {}, amountMax |-> {}]
    ELSE afterLowerCase(toLowerCase(trim(query)),
                        extractDatesFromText(toLowerCase(trim(query)), today, nlp), nlp)

\* The entity names.  The tags the compromise tagger gives the words of the
\* original text are an input, one tag for each word: "Person" is a
\* #ProperNoun and a #Noun that .not('#Person') leaves out, "ProperNoun" a
\* #ProperNoun and a #Noun, "Noun" a #Noun only, "Other" none of them.
Tags == {"Person", "ProperNoun", "Noun", "Other"}
ProperNounTags == {"Person", "ProperNoun"}
NounTags == {"Person", "ProperNoun", "Noun"}
ThingTags == {"ProperNoun", "Noun"}

\* The tags drawn: a proper noun is a word that begins with a capital.
Capitalised(word) == word # <<>> /\ word[1] \in Range(UpperLetters)
TagChoices(word) ==
    IF Capitalised(word) THEN {"Person", "ProperNoun", "Other"} ELSE {"Noun", "Other"}
Taggings(words) ==
    {tags \in [1..Len(words) -> Tags] :
        \A i \in 1..Len(words) : tags[i] \in TagChoices(words[i])}

\* For each word, whether its tag is one of those named.
Tagged(tags, named) == [i \in 1..Len(tags) |-> tags[i] \in named]

\* The elements of a sequence at the places given, in their order.
Pick(seq, places) == [k \in 1..Cardinality(places) |-> seq[Nth(places, k)]]

\* The sequence without the repetitions of its elements.
Unique(seq) == Pick(seq, {k \in 1..Len(seq) : \A j \in 1..(k - 1) : seq[j] # seq[k]})

\* String.prototype.includes.
includes(text, part) ==
    \E i \in 0..(Len(text) - Len(part)) : SubSeq(text, i + 1, i + Len(part)) = part

\* The last place of the run of flagged words that begins at place i.
RunEnd(flags, i) == SetMax({j \in i..Len(flags) : \A k \in i..j : flags[k]})

\* The maximal runs of flagged words with at least shortest words, from the
\* left: doc.match('#Tag+'), and a regular expression of the form
\* \b(word(?:\s+word)+)\b with the g flag.
Runs(words, flags, shortest) ==
    Pick([i \in 1..Len(words) |-> SubSeq(words, i, IF flags[i] THEN RunEnd(flags, i) ELSE i)],
         {i \in 1..Len(words) :
            /\ flags[i] /\ (i = 1 \/ ~flags[i - 1])
            /\ RunEnd(flags, i) - i + 1 >= shortest})

\* doc.match('(trigger|...) #Tag+'): a trigger word, compared in lower case,
\* and the whole run of tagged words after it; the matches from the left,
\* none overlapping another.
RECURSIVE TriggerThenRun(_, _, _, _)
TriggerThenRun(words, flags, i, triggers) ==
    IF i >= Len(words) THEN <<>>
    ELSE IF toLowerCase(words[i]) \in triggers /\ flags[i + 1]
    THEN <<SubSeq(words, i, RunEnd(flags, i + 1))>>
         \o TriggerThenRun(words, flags, RunEnd(flags, i + 1) + 1, triggers)
    ELSE TriggerThenRun(words, flags, i + 1, triggers)

\* The place where the tagged words that begin at place i stop: the first
\* later word that is a trigger or is not tagged, or the end of the text.
RunStop(words, flags, i, triggers) ==
    SetMin({j \in (i + 1)..(Len(words) + 1) :
              \/ j > Len(words)
              \/ toLowerCase(words[j]) \in triggers
              \/ ~flags[j]})

\* doc.match('#Tag+ (trigger|...)'): tagged words up to the first trigger
\* word, and that word.
RECURSIVE RunThenTrigger(_, _, _, _)
RunThenTrigger(words, flags, i, triggers) ==
    IF i >= Len(words) THEN <<>>
    ELSE IF /\ flags[i]
            /\ RunStop(words, flags, i, triggers) <= Len(words)
            /\ toLowerCase(words[RunStop(words, flags, i, triggers)]) \in triggers
    THEN <<SubSeq(words, i, RunStop(words, flags, i, triggers))>>
         \o RunThenTrigger(words, flags, RunStop(words, flags, i, triggers) + 1, triggers)
    ELSE RunThenTrigger(words, flags, i + 1, triggers)

\* match.text() for every match.
Texts(matches) == [k \in 1..Len(matches) |-> join(matches[k], <<" ">>)]

\* The words of line 1392 and of the replace of line 1399.
vendorTriggers ==
    {<<"f", "o", "r">>, <<"f", "r", "o", "m">>, <<"b", "y">>,
     <<"v", "e", "n", "d", "o", "r">>,
     <<"s", "u", "p", "p", "l", "i", "e", "r">>}

\* text.replace(/\b(for|from|by|vendor|supplier)\s+/gi, '').trim() (line
\* 1399): the trigger words that have a word after them go.
withoutVendorTriggers(match) ==
    join(Pick(match, {k \in 1..Len(match) :
                        k = Len(match) \/ toLowerCase(match[k]) \notin vendorTriggers}),
         <<" ">>)

\* The test of a free-standing run of proper nouns (lines 1415-1421).
IsStandaloneVendor(text) ==
    /\ Len(text) > 1
    /\ toLowerCase(text) \notin stopWords
    /\ toLowerCase(text) \notin Range(monthNames)

\* extractVendorNames (lines 1385-1438): the names after a trigger word, then
\* the free-standing ones, each once; none when the tagger throws.
extractVendorNames(words, tags, nlp) ==
    IF nlp = "throws" THEN <<>>
    ELSE Unique(
           [k \in 1..Len(TriggerThenRun(words, Tagged(tags, ProperNounTags), 1, vendorTriggers)) |->
              withoutVendorTriggers(
                TriggerThenRun(words, Tagged(tags, ProperNounTags), 1, vendorTriggers)[k])]
           \o SelectSeq(Texts(Runs(words, Tagged(tags, ProperNounTags), 1)),
                        IsStandaloneVendor))

\* domainWords, currencyWords and timeWords (lines 757-781): the entries that
\* the texts drawn here can spell.
domainWords ==
    {<<"i", "n", "v", "o", "i", "c", "e">>,
     <<"i", "n", "v", "o", "i", "c", "e", "s">>, <<"b", "i", "l", "l">>,
     <<"b", "i", "l", "l", "s">>, <<"o", "r", "d", "e", "r">>,
     <<"o", "r", "d", "e", "r", "s">>, <<"v", "e", "n", "d", "o", "r">>,
     <<"s", "u", "p", "p", "l", "i", "e", "r">>}
currencyWords ==
    {<<"r", "u", "p", "e", "e", "s">>, <<"a", "m", "o", "u", "n", "t">>}
timeWords ==
    {<<"l", "a", "s", "t">>}

\* containsStopWords (lines 1575-1581).
containsStopWords(phrase) ==
    \E word \in Range(split(toLowerCase(phrase))) : StripPunctuation(word) \in stopWords

\* isValidProduct (lines 1452-1466).
isValidProduct(text, vendors, products) ==
    /\ Len(text) >= 2
    /\ toLowerCase(text) \notin {toLowerCase(vendors[k]) : k \in 1..Len(vendors)}
    /\ toLowerCase(text) \notin domainWords
    /\ toLowerCase(text) \notin currencyWords
    /\ toLowerCase(text) \notin timeWords
    /\ toLowerCase(text) \notin stopWords
    /\ \A i \in 1..Len(text) : text[i] \notin Digits
    /\ ~containsStopWords(text)
    /\ toLowerCase(text) \notin {toLowerCase(products[k]) : k \in 1..Len(products)}

\* The trigger words of productPatterns (lines 1470-1476).
productContextWords ==
    {<<"w", "i", "t", "h">>,
     <<"c", "o", "n", "t", "a", "i", "n", "i", "n", "g">>,
     <<"i", "n", "c", "l", "u", "d", "i", "n", "g">>, <<"f", "o", "r">>}
productLabelWords ==
    {<<"p", "r", "o", "d", "u", "c", "t">>,
     <<"p", "r", "o", "d", "u", "c", "t", "s">>, <<"i", "t", "e", "m">>,
     <<"i", "t", "e", "m", "s">>}
productVerbWords ==
    {<<"b", "o", "u", "g", "h", "t">>,
     <<"p", "u", "r", "c", "h", "a", "s", "e", "d">>,
     <<"o", "r", "d", "e", "r", "e", "d">>, <<"s", "o", "l", "d">>}
productDocumentWords ==
    {<<"i", "n", "v", "o", "i", "c", "e">>,
     <<"i", "n", "v", "o", "i", "c", "e", "s">>, <<"b", "i", "l", "l">>,
     <<"b", "i", "l", "l", "s">>, <<"o", "r", "d", "e", "r">>,
     <<"o", "r", "d", "e", "r", "s">>}

\* text.replace(/\b(with|...|orders)\b/gi, '').trim() (lines 1486-1488):
\* the trigger words go, the white space around them stays.
withoutProductTriggers(match) ==
    trim(join([k \in 1..Len(match) |->
                 IF toLowerCase(match[k]) \in productContextWords \cup productLabelWords
                                              \cup productVerbWords \cup productDocumentWords
                 THEN <<>> ELSE match[k]],
              <<" ">>))

\* Strategy 1 (lines 1470-1496): the matches of the five patterns in their
\* order, without their trigger words; the empty ones are skipped.
productPatternTexts(words, nouns) ==
    SelectSeq(
      [k \in 1..Len(TriggerThenRun(words, nouns, 1, productContextWords)
                    \o TriggerThenRun(words, nouns, 1, productLabelWords)
                    \o RunThenTrigger(words, nouns, 1, productLabelWords)
                    \o TriggerThenRun(words, nouns, 1, productVerbWords)
                    \o RunThenTrigger(words, nouns, 1, productDocumentWords)) |->
         withoutProductTriggers((TriggerThenRun(words, nouns, 1, productContextWords)
                                 \o TriggerThenRun(words, nouns, 1, productLabelWords)
                                 \o RunThenTrigger(words, nouns, 1, productLabelWords)
                                 \o TriggerThenRun(words, nouns, 1, productVerbWords)
                                 \o RunThenTrigger(words, nouns, 1, productDocumentWords))[k])],
      LAMBDA cleaned : cleaned # <<>>)

\* [A-Z][a-z]+ as a whole word.
TitleCase(word) ==
    /\ Len(word) >= 2
    /\ word[1] \in Range(UpperLetters)
    /\ \A i \in 2..Len(word) : word[i] \in Range(LowerLetters)

\* Strategy 3 (lines 1510-1521): the runs of two or more capitalised words.
capitalizedTerms(words) ==
    Texts(Runs(words, [i \in 1..Len(words) |-> TitleCase(words[i])], 2))

\* hasProductContext (lines 1536-1544).
hasProductContext(queryLower, textLower) ==
    \/ includes(queryLower, <<"w", "i", "t", "h", " ">> \o textLower)
    \/ includes(queryLower, <<"f", "o", "r", " ">> \o textLower)
    \/ includes(queryLower, <<"c", "o", "n", "t", "a", "i", "n", "i", "n", "g", " ">> \o textLower)
    \/ includes(queryLower, textLower \o <<" ", "i", "n", "v", "o", "i", "c", "e">>)
    \/ includes(queryLower, textLower \o <<" ", "b", "i", "l", "l">>)
    \/ includes(queryLower, textLower \o <<" ", "o", "r", "d", "e", "r">>)
    \/ includes(queryLower, <<"b", "o", "u", "g", "h", "t", " ">> \o textLower)
    \/ includes(queryLower, <<"p", "u", "r", "c", "h", "a", "s", "e", "d", " ">> \o textLower)

\* Strategy 4 (lines 1523-1552): the single nouns that are things, have three
\* characters or more and stand in a product context.
contextualProducts(query, words, tags) ==
    SelectSeq(Pick(words, {i \in 1..Len(words) : tags[i] \in ThingTags}),
              LAMBDA text : Len(text) >= 3
                            /\ hasProductContext(toLowerCase(query), toLowerCase(text)))

\* productNames.push(candidate) for the candidates that isValidProduct lets
\* through, in their order.
RECURSIVE pushValidProducts(_, _, _)
pushValidProducts(candidates, vendors, products) ==
    IF candidates = <<>> THEN products
    ELSE pushValidProducts(
           Tail(candidates), vendors,
           IF isValidProduct(Head(candidates), vendors, products)
           THEN Append(products, Head(candidates))
           ELSE products)

\* extractProductNames (lines 1445-1565); the texts drawn hold no quotation
\* mark, so strategy 2 (lines 1498-1508) finds nothing.  None when the
\* tagger throws.
extractProductNames(query, words, tags, vendors, nlp) ==
    IF nlp = "throws" THEN <<>>
    ELSE pushValidProducts(productPatternTexts(words, Tagged(tags, NounTags))
                           \o capitalizedTerms(words)
                           \o contextualProducts(query, words, tags),
                           vendors, <<>>)

\* The places where the matches of a global replace begin: of the places
\* where the pattern occurs, the leftmost, then the leftmost after its end.
RECURSIVE LeftmostMatches(_, _, _)
LeftmostMatches(starts, from, length) ==
    IF {s \in starts : s >= from} = {} THEN {}
    ELSE {SetMin({s \in starts : s >= from})}
         \cup LeftmostMatches(starts, SetMin({s \in starts : s >= from}) + length, length)

\* The character that stands at place i after the replace.
RestoredChar(text, name, matches, i) ==
    IF \E s \in matches : s <= i /\ i < s + Len(name)
    THEN name[i - (CHOOSE s \in matches : s <= i /\ i < s + Len(name)) + 1]
    ELSE text[i]

\* normalizedQuery.replace(new RegExp(escapeRegex(name.toLowerCase()), 'gi'),
\* name) (lines 967, 972): the name has the length of its lower-case form,
\* and no character that escapeRegex changes stands for anything but itself.
restoreCase(text, name) ==
    [i \in 1..Len(text) |->
       RestoredChar(text, name,
                    LeftmostMatches({s \in 1..(Len(text) - Len(name) + 1) :
                                       toLowerCase(SubSeq(text, s, s + Len(name) - 1))
                                         = toLowerCase(name)},
                                    1, Len(name)),
                    i)]

\* for (const name of names) normalizedQuery = normalizedQuery.replace(...).
RECURSIVE restoreCases(_, _)
restoreCases(text, names) ==
    IF names = <<>> THEN text
    ELSE restoreCases(restoreCase(text, Head(names)), Tail(names))

\* Lines 958-984: the case of the vendor names, then of the product names,
\* restored in the text without stop words; the names go into the result.
withCaseRestored(result, vendors, products) ==
    [normalizedQuery |->
         trim(restoreCases(restoreCases(result.normalizedQuery, vendors), products)),
     dateFrom |-> result.dateFrom, dateTo |-> result.dateTo,
     amountMin |-> result.amountMin, amountMax |-> result.amountMax,
     vendorNames |-> vendors, productNames |-> products]

\* Lines 926-927: the names are taken from the trimmed query in its own case.
withEntityNames(result, trimmedQuery, tags, vendors, nlp) ==
    withCaseRestored(result, vendors,
                     extractProductNames(trimmedQuery, WordsOf(trimmedQuery), tags,
                                         vendors, nlp))

\* preprocessQuery (lines 911-989) on a text in any case: no names for a
\* blank query (line 916).
preprocessQueryWithNames(query, today, nlp, tags) ==
    IF trim(query) = <<>>
    THEN [normalizedQuery |-> <<>>, dateFrom |-> {}, dateTo |-> {},
          amountMin |-> {}, amountMax |-> {}, vendorNames |-> <<>>, productNames |-> <<>>]
    ELSE withEntityNames(preprocessQueryText(query, today, nlp), trim(query), tags,
                         extractVendorNames(WordsOf(trim(query)), tags, nlp), nlp)

\* The phrases the queries are made of.
QueryPhrases ==
    {<<<<"f", "i", "n", "d">>, <<"i", "n", "v", "o", "i", "c", "e", "s">>>>,
     <<<<"l", "a", "p", "t", "o", "p", "s">>>>,
     <<<<"l", "a", "s", "t">>, <<"m", "o", "n", "t", "h">>>>,
     <<<<"t", "o", "d", "a", "y">>>>,
     <<<<"2", "0", "2", "4", "-", "0", "1", "-", "1", "5">>>>,
     <<<<"2", "0", "2", "3", "-", "1", "2", "-", "3", "1">>>>,
     <<<<"j", "a", "n", "u", "a", "r", "y">>, <<"1", "5", ",">>, <<"2", "0", "2", "4">>>>,
     <<<<"b", "e", "t", "w", "e", "e", "n">>, <<"1", "0", "0", "0">>, <<"a", "n", "d">>, <<"2", "0", "0", "0">>>>,
     <<<<"f", "r", "o", "m">>, <<"1", "0", "0", "0">>, <<"t", "o">>, <<"1", "0", "0", "0">>>>,
     <<<<"a", "r", "o", "u", "n", "d">>, <<"5", "0", "0", "0">>, <<"r", "u", "p", "e", "e", "s">>>>,
     <<<<"$", "2", "0", "0", "0">>>>}

RECURSIVE Concat(_)
Concat(seqs) == IF seqs = <<>> THEN <<>> ELSE seqs[1] \o Concat(Tail(seqs))

\* The queries: up to MaxPhrases phrases, single-spaced.
PhraseQueries ==
    {join(Concat(phrases), <<" ">>) : phrases \in SeqsUpTo(QueryPhrases, MaxPhrases)}

\* The phrases the queries with names are made of.
NamePhrases ==
    {<<<<"f", "r", "o", "m">>>>,
     <<<<"f", "o", "r">>>>,
     <<<<"i", "n", "v", "o", "i", "c", "e", "s">>>>,
     <<<<"l", "a", "p", "t", "o", "p">>>>,
     <<<<"G", "a", "u", "r", "a", "v">>>>,
     <<<<"B", "i", "l", "l">>, <<"G", "a", "t", "e", "s">>>>,
     <<<<"S", "t", "e", "e", "l">>, <<"R", "o", "d">>>>}

\* The queries with names: up to MaxPhrases phrases, single-spaced.
NameQueries ==
    {join(Concat(phrases), <<" ">>) : phrases \in SeqsUpTo(NamePhrases, MaxPhrases)}

ApplyPreprocessQueryWithNames ==
    /\ fn = "preprocessQueryWithNames" /\ out = <<>>
    /\ out' = <<preprocessQueryWithNames(arg.query, arg.now, arg.nlp, arg.tags)>>
    /\ UNCHANGED <<fn, arg, searchVars, cacheVars>>

\* The phrases of the date rules, one for each rule of extractDates.
RulePhrases ==
    {<<<<"t", "o", "d", "a", "y">>>>,
     <<<<"l", "a", "s", "t">>, <<"m", "a", "r", "c", "h">>>>,
     <<<<"l", "a", "s", "t">>, <<"m", "o", "n", "t", "h">>>>,
     <<<<"l", "a", "s", "t">>, <<"w", "e", "e", "k">>>>,
     <<<<"m", "a", "r", "c", "h">>, <<"2", "0", "2", "4">>>>,
     <<<<"2", "0", "2", "4", "-", "0", "1", "-", "1", "5">>>>}

\* The queries that hold the phrases of up to MaxPhrases date rules.
RuleQueries ==
    {join(Concat(phrases), <<" ">>) : phrases \in SeqsUpTo(RulePhrases, MaxPhrases)}

\* The queries put at every evaluation date.
DatedQueries ==
    {join(Concat(phrases), <<" ">>) :
        phrases \in {<<<<<<"l", "a", "s", "t">>, <<"m", "o", "n", "t", "h">>>>>>,
                     <<<<<<"i", "n", "v", "o", "i", "c", "e", "s">>>>,
                       <<<<"l", "a", "s", "t">>, <<"m", "o", "n", "t", "h">>>>>>,
                     <<<<<<"l", "a", "s", "t">>, <<"w", "e", "e", "k">>>>>>,
                     <<<<<<"l", "a", "s", "t">>, <<"m", "a", "r", "c", "h">>>>>>,
                     <<<<<<"y", "e", "s", "t", "e", "r", "d", "a", "y">>>>>>,
                     <<<<<<"t", "o", "m", "o", "r", "r", "o", "w">>>>>>,
                     <<<<<<"m", "a", "r", "c", "h">>, <<"2", "0", "2", "4">>>>>>}}

NewYearsDays == {date \in EvaluationDates : date.month = 0 /\ date.day = 1}

ApplyPreprocessQuery ==
    /\ fn = "preprocessQuery" /\ out = <<>>
    /\ out' = <<preprocessQueryText(arg.query, arg.now, arg.nlp)>>
    /\ UNCHANGED <<fn, arg, searchVars, cacheVars>>

PreprocessInit ==
    /\ out = <<>>
    /\ \/ /\ fn = "removeStopWords"
          /\ arg \in [query : StopWordTexts]
       \/ /\ fn = "preprocessQuery"
          /\ arg \in [query : PhraseQueries, now : NewYearsDays, nlp : NlpOutcomes]
                     \cup [query : DatedQueries, now : EvaluationDates, nlp : NlpOutcomes]
                     \cup [query : RuleQueries, now : NewYearsDays, nlp : NlpOutcomes]
       \/ /\ fn = "preprocessQueryWithNames"
          /\ \E query \in NameQueries, today \in NewYearsDays, nlp \in NlpOutcomes :
               \E tags \in IF nlp = "tags" THEN Taggings(WordsOf(trim(query)))
                             ELSE {[i \in 1..Len(WordsOf(trim(query))) |-> "Other"]} :
                 arg = [query |-> query, now |-> today, nlp |-> nlp, tags |-> tags]

PreprocessNext ==
    \/ ApplyRemoveStopWords
    \/ ApplyPreprocessQuery
    \/ ApplyPreprocessQueryWithNames

InitPreprocess == SearchQuiescent /\ CacheIdle /\ PreprocessInit
SpecPreprocess == InitPreprocess /\ [][PreprocessNext]_vars

----------------------------------------------------------------------------
(* Part 5: the word loop of FuzzyMatchingService.correctQuery (lines 93-133) *)
(* and correctSingleWordAsync.  A text is the sequence of its words; the    *)
(* answers of the store's phonetic query and of the Fuse indexes are inputs. *)

\* staticDictionary (lines 61-65): actionWords, domainWords, keywordWords
\* (lines 22-40) in this order.
staticDictionary ==
    <<<<"f", "i", "n", "d">>, <<"s", "h", "o", "w">>, <<"g", "e", "t">>,
      <<"s", "e", "a", "r", "c", "h">>, <<"l", "i", "s", "t">>,
      <<"d", "i", "s", "p", "l", "a", "y">>, <<"f", "e", "t", "c", "h">>,
      <<"r", "e", "t", "r", "i", "e", "v", "e">>, <<"l", "o", "o", "k">>,
      <<"g", "i", "v", "e">>, <<"b", "r", "i", "n", "g">>,
      <<"p", "u", "l", "l">>, <<"v", "i", "e", "w">>, <<"s", "e", "e">>,
      <<"c", "h", "e", "c", "k">>, <<"i", "n", "v", "o", "i", "c", "e">>,
      <<"i", "n", "v", "o", "i", "c", "e", "s">>, <<"b", "i", "l", "l">>,
      <<"b", "i", "l", "l", "s">>, <<"p", "u", "r", "c", "h", "a", "s", "e">>,
      <<"p", "u", "r", "c", "h", "a", "s", "e", "s">>,
      <<"o", "r", "d", "e", "r">>, <<"o", "r", "d", "e", "r", "s">>,
      <<"r", "e", "c", "e", "i", "p", "t">>,
      <<"r", "e", "c", "e", "i", "p", "t", "s">>,
      <<"p", "a", "y", "m", "e", "n", "t">>,
      <<"p", "a", "y", "m", "e", "n", "t", "s">>,
      <<"t", "r", "a", "n", "s", "a", "c", "t", "i", "o", "n">>,
      <<"t", "r", "a", "n", "s", "a", "c", "t", "i", "o", "n", "s">>,
      <<"e", "x", "p", "e", "n", "s", "e">>,
      <<"e", "x", "p", "e", "n", "s", "e", "s">>,
      <<"d", "o", "c", "u", "m", "e", "n", "t">>,
      <<"d", "o", "c", "u", "m", "e", "n", "t", "s">>, <<"f", "r", "o", "m">>,
      <<"f", "o", "r">>, <<"w", "i", "t", "h">>, <<"b", "y">>, <<"t", "o">>,
      <<"b", "e", "t", "w", "e", "e", "n">>, <<"a", "n", "d">>, <<"o", "r">>,
      <<"c", "o", "n", "t", "a", "i", "n", "i", "n", "g">>,
      <<"i", "n", "c", "l", "u", "d", "i", "n", "g">>, <<"l", "a", "s", "t">>,
      <<"n", "e", "x", "t">>, <<"t", "h", "i", "s">>, <<"t", "h", "a", "t">>,
      <<"m", "o", "n", "t", "h">>, <<"w", "e", "e", "k">>,
      <<"y", "e", "a", "r">>, <<"t", "o", "d", "a", "y">>,
      <<"y", "e", "s", "t", "e", "r", "d", "a", "y">>,
      <<"t", "o", "m", "o", "r", "r", "o", "w">>,
      <<"j", "a", "n", "u", "a", "r", "y">>,
      <<"f", "e", "b", "r", "u", "a", "r", "y">>, <<"m", "a", "r", "c", "h">>,
      <<"a", "p", "r", "i", "l">>, <<"m", "a", "y">>, <<"j", "u", "n", "e">>,
      <<"j", "u", "l", "y">>, <<"a", "u", "g", "u", "s", "t">>,
      <<"s", "e", "p", "t", "e", "m", "b", "e", "r">>,
      <<"o", "c", "t", "o", "b", "e", "r">>,
      <<"n", "o", "v", "e", "m", "b", "e", "r">>,
      <<"d", "e", "c", "e", "m", "b", "e", "r">>,
      <<"r", "u", "p", "e", "e", "s">>, <<"r", "s">>,
      <<"d", "o", "l", "l", "a", "r", "s">>, <<"a", "m", "o", "u", "n", "t">>,
      <<"t", "o", "t", "a", "l">>, <<"v", "e", "n", "d", "o", "r">>,
      <<"s", "u", "p", "p", "l", "i", "e", "r">>>>

toLowerCaseText(text) == [i \in 1..Len(text) |-> toLowerCase(text[i])]

\* Array.prototype.includes.
includesWord(list, word) == \E k \in 1..Len(list) : list[k] = word

\* A confidence is a fraction <<numerator, denominator>>, denominator > 0.
MoreThan(confidence, numerator, denominator) ==
    confidence[1] * denominator > numerator * confidence[2]
AtLeast(confidence, numerator, denominator) ==
    confidence[1] * denominator >= numerator * confidence[2]
LargerOf(a, b) == IF AtLeast(a, b[1], b[2]) THEN a ELSE b

\* { original: word, corrected: word, wasChanged: false, confidence: 0 }.
NoMatch(word) == [corrected |-> <<word>>, wasChanged |-> FALSE, confidence |-> <<0, 1>>]

\* closest(wordLower, this.staticDictionary) (line 347): the first of the
\* entries at the least distance, given as <<distance, place>>; ranked holds
\* <<distance, place>> for every entry.
firstOfLeast(ranked) ==
    CHOOSE r \in ranked :
        \A other \in ranked :
            r[1] < other[1] \/ (r[1] = other[1] /\ r[2] <= other[2])
closest(wordLower) ==
    firstOfLeast({<<levenshteinDistance(wordLower, staticDictionary[k]), k>> :
                    k \in 1..Len(staticDictionary)})

\* fuzzyMatchStatic (lines 343-372) once the closest entry is known.
staticMatchFor(word, match, distance) ==
    IF \/ distance <= 2 /\ Len(word) - Len(match) \in {-1, 0, 1}
       \/ AtLeast(<<MaxOf(Len(word), Len(match)) - distance, MaxOf(Len(word), Len(match))>>, 6, 10)
    THEN [corrected |-> <<match>>, wasChanged |-> match # toLowerCase(word),
          confidence |-> <<MaxOf(Len(word), Len(match)) - distance,
                           MaxOf(Len(word), Len(match))>>]
    ELSE NoMatch(word)

staticMatchOf(word, ranked) ==
    staticMatchFor(word, staticDictionary[ranked[2]], ranked[1])

fuzzyMatchStatic(word) == staticMatchOf(word, closest(toLowerCase(word)))

\* What a Fuse index answers: the item of its best result when the score of
\* that result gives a confidence above 0.6, <<>> otherwise.
FuseAnswers(list) == {<<>>} \cup Range(list)

\* fuzzyMatchVendor (lines 377-400); found is the answer of vendorFuse.
fuzzyMatchVendor(word, vendorList, found) ==
    IF vendorList = <<>> \/ found = <<>> THEN NoMatch(word)
    ELSE [corrected |-> found,
          wasChanged |-> toLowerCaseText(found) # <<toLowerCase(word)>>,
          confidence |-> <<7, 10>>]

\* fuzzyMatchProduct (lines 405-428); found is the answer of productFuse.
fuzzyMatchProduct(word, productList, found) ==
    IF productList = <<>> \/ found = <<>> THEN NoMatch(word)
    ELSE [corrected |-> found,
          wasChanged |-> toLowerCaseText(found) # <<toLowerCase(word)>>,
          confidence |-> <<7, 10>>]

\* Line 231.
isCapitalized(word) ==
    word[1] = toUpperCaseChar(word[1]) /\ word[1] # toLowerCaseChar(word[1])

\* Steps 2, 4 and 5 of correctSingleWord (lines 240-254, 266-280): the vendor
\* index, then the product index, then the word as it is.
correctFromIndexes(word, vendorMatch, productMatch) ==
    IF vendorMatch.wasChanged /\ MoreThan(vendorMatch.confidence, 6, 10)
    THEN vendorMatch.corrected
    ELSE IF productMatch.wasChanged /\ MoreThan(productMatch.confidence, 6, 10)
    THEN productMatch.corrected
    ELSE <<word>>

\* Step 3 of correctSingleWord (lines 259-264), for a word without a capital.
StaticAccepted(staticMatch) ==
    staticMatch.wasChanged /\ AtLeast(staticMatch.confidence, 5, 10)

correctFromStatic(word, staticMatch, vendorMatch, productMatch) ==
    IF StaticAccepted(staticMatch)
    THEN <<preserveCase(word, staticMatch.corrected[1])>>
    ELSE correctFromIndexes(word, vendorMatch, productMatch)

\* correctSingleWord (lines 229-282); fuse holds the answers of the indexes.
correctSingleWord(word, vendorList, productList, fuse) ==
    IF includesWord(staticDictionary, toLowerCase(word)) THEN <<word>>
    ELSE IF isCapitalized(word)
    THEN correctFromIndexes(word, fuzzyMatchVendor(word, vendorList, fuse.vendor),
                            fuzzyMatchProduct(word, productList, fuse.product))
    ELSE correctFromStatic(word, fuzzyMatchStatic(word),
                           fuzzyMatchVendor(word, vendorList, fuse.vendor),
                           fuzzyMatchProduct(word, productList, fuse.product))

\* The column edit_distance of the phonetic query (line 458) for a vendor.
edit_distance(word, vendor_name) ==
    levenshteinDistance(toLowerCase(word), toLowerCase(vendor_name[1]))

\* phonetic_score (lines 459-469) as a fraction; its denominator is a
\* multiple of GREATEST(LENGTH(:word), LENGTH(first_name)).
phonetic_score(word, row, distance) ==
    IF row.soundex_match
    THEN <<MaxOf(Len(word), Len(row.vendor_name[1])) - distance,
           MaxOf(Len(word), Len(row.vendor_name[1]))>>
    ELSE IF row.metaphone_match
    THEN <<8 * MaxOf(Len(word), Len(row.vendor_name[1])) - 5 * distance,
           10 * MaxOf(Len(word), Len(row.vendor_name[1]))>>
    ELSE <<MaxOf(Len(word), Len(row.vendor_name[1])) - 2 * distance,
           2 * MaxOf(Len(word), Len(row.vendor_name[1]))>>

\* Math.max(0, Math.min(1, score)).
Clamped(score) ==
    IF score[1] < 0 THEN <<0, 1>> ELSE IF score[1] > score[2] THEN <<1, 1>> ELSE score

\* Lines 498-515: the best row accepted, its confidence raised to 0.7 or 0.6.
acceptedMatch(word, row, distance, score) ==
    IF row.soundex_match \/ row.metaphone_match
         \/ (distance <= 2 /\ MoreThan(score, 5, 10))
    THEN [corrected |-> row.vendor_name,
          wasChanged |-> toLowerCaseText(row.vendor_name) # <<toLowerCase(word)>>,
          confidence |->
              IF row.soundex_match /\ row.metaphone_match
              THEN LargerOf(Clamped(score), <<7, 10>>)
              ELSE IF row.soundex_match \/ row.metaphone_match
              THEN LargerOf(Clamped(score), <<6, 10>>)
              ELSE Clamped(score)]
    ELSE NoMatch(word)

\* The vendor names in the PurchaseInvoice table when the phonetic query
\* runs; the cached vendorList may be older than the table.
TableVendors ==
    {<<<<"T", "a", "t", "a">>, <<"S", "t", "e", "e", "l">>>>,
     <<<<"G", "a", "u", "r", "a", "v">>>>}

\* The rows the phonetic query can give for one vendor: the WHERE clause
\* (lines 471-474) holds; soundex and dmetaphone are functions of the store,
\* and both agree on two words that differ in case only.
RowsFor(vendor_name, distance) ==
    {[status |-> "rows", vendor_name |-> vendor_name, edit_distance |-> distance,
      soundex_match |-> soundex, metaphone_match |-> metaphone] :
        <<soundex, metaphone>> \in
            {flags \in BOOLEAN \X BOOLEAN :
                /\ flags[1] \/ flags[2] \/ distance <= 2
                /\ distance = 0 => flags[1] /\ flags[2]}}

NoRow(status) ==
    [status |-> status, vendor_name |-> <<>>, edit_distance |-> 0,
     soundex_match |-> FALSE, metaphone_match |-> FALSE]

\* What the store answers to the phonetic query for a word: an error, no
\* row, or its best row (ORDER BY ... LIMIT 1).
StoreAnswers(word) ==
    {NoRow("fails"), NoRow("none")}
      \cup UNION {RowsFor(vendor_name, edit_distance(word, vendor_name)) :
                    vendor_name \in TableVendors}

NotAsked == NoRow("notAsked")

phoneticMatchVendorUncaught(word, vendorList, answer) ==
    IF vendorList = <<>> \/ answer.status = "none" THEN NoMatch(word)
    ELSE IF answer.status = "fails"
    THEN [corrected |-> vendorList[1], wasChanged |-> TRUE, confidence |-> <<1, 1>>]
    ELSE acceptedMatch(word, answer, answer.edit_distance,
                       phonetic_score(word, answer, answer.edit_distance))

\* phoneticMatchVendor (lines 435-525): no query without cached vendors; an
\* error of the query is caught (lines 521-524) and gives the same answer as
\* no row.
phoneticMatchVendor(word, vendorList, answer) ==
    IF vendorList = <<>> \/ answer.status # "rows" THEN NoMatch(word)
    ELSE acceptedMatch(word, answer, answer.edit_distance,
                       phonetic_score(word, answer, answer.edit_distance))

\* Lines 310-312.
vendorAlreadyInQuery(vendorName, currentQuery, matchedEntities) ==
    \/ \E e \in 1..Len(matchedEntities) :
          toLowerCaseText(matchedEntities[e]) = toLowerCaseText(vendorName)
    \/ IndexOfPhrase(toLowerCaseText(currentQuery), toLowerCaseText(vendorName)) > 0

phoneticCorrectionIgnoringQuery(phoneticMatch, currentQuery, matchedEntities) ==
    IF Len(phoneticMatch.corrected) = 1 \/ AtLeast(phoneticMatch.confidence, 95, 100)
    THEN phoneticMatch.corrected
    ELSE <<phoneticMatch.corrected[1]>>

\* Lines 305-334: what an accepted phonetic match puts in place of the word.
phoneticCorrection(phoneticMatch, currentQuery, matchedEntities) ==
    IF vendorAlreadyInQuery(phoneticMatch.corrected, currentQuery, matchedEntities)
    THEN <<phoneticMatch.corrected[1]>>
    ELSE IF Len(phoneticMatch.corrected) = 1 \/ AtLeast(phoneticMatch.confidence, 95, 100)
    THEN phoneticMatch.corrected
    ELSE <<phoneticMatch.corrected[1]>>

\* Line 304.
Accepted(phoneticMatch) ==
    phoneticMatch.wasChanged /\ MoreThan(phoneticMatch.confidence, 5, 10)

\* Lines 303-337, once phoneticMatchVendor has answered.
afterPhoneticMatch(word, phoneticMatch, entities, vendorList, productList, fuse) ==
    IF Accepted(phoneticMatch)
    THEN phoneticCorrection(phoneticMatch, entities.corrected, entities.matchedEntities)
    ELSE correctSingleWord(word, vendorList, productList, fuse)

\* correctSingleWordAsync (lines 288-338); entities is what
\* correctMultiWordEntities returned.
correctSingleWordAsync(word, entities, vendorList, productList, answer, fuse) ==
    IF includesWord(staticDictionary, toLowerCase(word))
    THEN correctSingleWord(word, vendorList, productList, fuse)
    ELSE afterPhoneticMatch(word, phoneticMatchVendor(word, vendorList, answer),
                            entities, vendorList, productList, fuse)

\* One turn of the word loop (lines 93-131) for a word that is no white
\* space: what is pushed to correctedWords.
pushedFor(word, entities, vendorList, productList, answer, fuse) ==
    IF KeptAsIs(word, entities.corrected, entities.matchedEntities) THEN <<word>>
    ELSE correctSingleWordAsync(word, entities, vendorList, productList, answer, fuse)

\* Whether the turn for the word sends the phonetic query to the store, and
\* whether it searches the Fuse indexes.
AsksStore(word, entities, vendorList) ==
    /\ ~KeptAsIs(word, entities.corrected, entities.matchedEntities)
    /\ ~includesWord(staticDictionary, toLowerCase(word))
    /\ vendorList # <<>>

SearchesIndexes(word, entities, vendorList, answer) ==
    /\ ~KeptAsIs(word, entities.corrected, entities.matchedEntities)
    /\ ~includesWord(staticDictionary, toLowerCase(word))
    /\ ~Accepted(phoneticMatchVendor(word, vendorList, answer))
    /\ isCapitalized(word) \/ ~StaticAccepted(fuzzyMatchStatic(word))

\* The words of the queries put to the word loop, and the cached lists.
LoopTokens ==
    {<<"T", "a", "t", "a">>, <<"S", "t", "e", "e", "l">>, <<"G", "o", "w", "r", "a", "v">>,
     <<"i", "n", "v", "o", "c", "e">>, <<"f", "r", "o", "m">>}
MaxLoopWords == 2
LoopQueries == {q \in SeqsUpTo(LoopTokens, MaxLoopWords) : Len(q) >= 1}
CachedVendorLists ==
    {<<>>, <<<<<<"G", "a", "u", "r", "a", "v">>>>>>, <<<<<<"G", "a", "u", "r", "a", "v">>>>, <<<<"T", "a", "t", "a">>, <<"S", "t", "e", "e", "l">>>>>>}
CachedProductLists == {<<>>, <<<<<<"S", "t", "e", "e", "l">>, <<"R", "o", "d">>>>>>}

\* The turn of the loop for the next word of the query: the store and the
\* indexes answer, and the turn is recorded with what it pushed.
TurnFor(word, entities, answer, fuse) ==
    [token |-> word, answer |-> answer, fuse |-> fuse,
     pushed |-> pushedFor(word, entities, arg.vendorList, arg.productList, answer, fuse)]

CorrectNextWordOf(entities) ==
    /\ Len(out) < Len(entities.corrected)
    /\ \E answer \in IF AsksStore(entities.corrected[Len(out) + 1], entities, arg.vendorList)
                     THEN StoreAnswers(entities.corrected[Len(out) + 1])
                     ELSE {NotAsked} :
         \E fuse \in IF SearchesIndexes(entities.corrected[Len(out) + 1], entities,
                                        arg.vendorList, answer)
                     THEN [vendor : FuseAnswers(arg.vendorList),
                           product : FuseAnswers(arg.productList)]
                     ELSE {[vendor |-> <<>>, product |-> <<>>]} :
           out' = Append(out, TurnFor(entities.corrected[Len(out) + 1], entities, answer, fuse))

\* arg holds the query, the cached lists and, in entities, the locals
\* correctedQuery and matchedEntities the loop runs with (lines 85-91).
CorrectNextWord ==
    /\ fn = "correctWords"
    /\ CorrectNextWordOf(arg.entities)
    /\ UNCHANGED <<fn, arg, searchVars, cacheVars>>

WordsInit ==
    /\ fn = "correctWords"
    /\ \E query \in LoopQueries, vendorList \in CachedVendorLists,
          productList \in CachedProductLists :
         arg = [query |-> query, vendorList |-> vendorList, productList |-> productList,
                entities |-> correctMultiWordEntities(query, vendorList, productList)]
    /\ out = <<>>

InitWords == SearchQuiescent /\ CacheIdle /\ WordsInit
SpecWords == InitWords /\ [][CorrectNextWord]_vars

----------------------------------------------------------------------------
(* Part 6: PurchaseInvoiceController (src/unnamed/part_002) and             *)
(* PurchaseInvoiceService (src/unnamed/part_008).                           *)

\* SearchPurchaseInvoiceDto (src/src/dto/search-purchase-invoice.dto.ts,
\* lines 1-10) without its query: what preprocessQuery makes of the query is
\* an input here.
SearchPurchaseInvoiceDtos ==
    [companyId : Opt({1}), branchId : Opt(Branches), dateFrom : Opt(Dates),
     dateTo : Opt(Dates), amountMin : Opt(Amounts), amountMax : Opt(Amounts),
     limit : Opt(Limits)]

\* PurchaseInvoiceController.search (lines 78-87): the object literal handed
\* to semanticSearch as filters; a property the literal does not name is
\* undefined.
searchFilters(searchDto) ==
    [companyId |-> searchDto.companyId,
     branchId |-> searchDto.branchId,
     dateFrom |-> searchDto.dateFrom,
     dateTo |-> searchDto.dateTo,
     limit |-> searchDto.limit,
     amountMin |-> {},
     amountMax |-> {}]

\* POST api/purchase-invoice/search up to line 111 of semanticSearch: the
\* filters the controller hands over and the bounds semanticSearch builds
\* from them.
ControllerSearch ==
    /\ fn = "search" /\ out = <<>>
    /\ out' = <<[filters |-> searchFilters(arg.searchDto),
                 replacements |-> BuildReplacements(arg.preprocessed,
                                                    searchFilters(arg.searchDto)),
                 whereConditions |->
                     BuildWhereConditions(BuildReplacements(arg.preprocessed,
                                                            searchFilters(arg.searchDto)))]>>
    /\ UNCHANGED <<fn, arg, searchVars, cacheVars>>

\* The queries of the search requests: one without an amount in its text, one
\* with the amount 10.
SearchRequestInit ==
    /\ fn = "search"
    /\ arg \in [searchDto : SearchPurchaseInvoiceDtos,
                preprocessed : {preprocessQuery([normalizedQuery |-> "laptops", vendorNames |-> <<>>], {}, amountsFound, FALSE) :
                                   amountsFound \in {{}, {10}}}]
    /\ out = <<>>

InitSearchRequest == SearchQuiescent /\ CacheIdle /\ SearchRequestInit
SpecSearchRequest == InitSearchRequest /\ [][ControllerSearch]_vars

\* The requests that write invoices.  table holds the PurchaseInvoice rows,
\* each with its PurchaseInvoiceItem rows; arg is the request in flight with
\* the table as the request found it; out holds the locals of its handlers:
\* the rows as the open transaction sees them, and the searchable text read
\* by generateAndStoreEmbedding; calls lists the awaited calls that returned.

MaxInvoices == 1
MaxItems == 2

InvoiceIds == 1..(MaxInvoices + 1)

\* The items of the request bodies: a discount above 100 without srNo, a
\* discount below 0 with srNo and a blank product name, no discount at all.
ItemDtos ==
    {[productName |-> <<"R", "o", "d">>, discountPercentage |-> {150}, srNo |-> {}],
     [productName |-> <<" ">>, discountPercentage |-> {-5}, srNo |-> {7}],
     [productName |-> <<"P", "i", "p", "e">>, discountPercentage |-> {}, srNo |-> {}]}

ItemLists == SeqsUpTo(ItemDtos, MaxItems)

\* UpdatePurchaseInvoiceDto and CreatePurchaseInvoiceDto, as far as the
\* handlers and the searchable text read them.
UpdateDtos == [vendorName : Opt({<<"T", "a", "t", "a">>}), items : Opt(ItemLists)]
CreateDtos == [vendorName : {{<<"T", "a", "t", "a">>}}, items : Opt(ItemLists)]
NoDto == [vendorName |-> {}, items |-> {}]

HasRow(rows, id) == \E row \in rows : row.id = id
RowOf(rows, id) == CHOOSE row \in rows : row.id = id

itemsToCreateUnclamped(items, id) ==
    [index \in 1..Len(items) |->
        [productName |-> items[index].productName,
         discountPercentage |->
             IF ~Has(items[index].discountPercentage) THEN 0
             ELSE IF Val(items[index].discountPercentage) < 0 THEN 0
             ELSE Val(items[index].discountPercentage),
         purchaseInvoiceId |-> id,
         srNo |-> IF Has(items[index].srNo) THEN Val(items[index].srNo) ELSE index]]

\* items.map((item, index) => ...) (part_008 lines 46-58 and 136-148); index
\* counts from 1 here, so index + 1 of the code is index.
itemsToCreate(items, id) ==
    [index \in 1..Len(items) |->
        [productName |-> items[index].productName,
         discountPercentage |->
             IF ~Has(items[index].discountPercentage) THEN 0
             ELSE IF Val(items[index].discountPercentage) > 100 THEN 100
             ELSE IF Val(items[index].discountPercentage) < 0 THEN 0
             ELSE Val(items[index].discountPercentage),
         purchaseInvoiceId |-> id,
         srNo |-> IF Has(items[index].srNo) THEN Val(items[index].srNo) ELSE index]]

\* The product names of the items that are not blank, trimmed
\* (search.service.ts lines 715-718).
productNamesOf(items) ==
    SelectSeq([i \in 1..Len(items) |-> trim(items[i].productName)],
              LAMBDA name : name # <<>>)

generateSearchableTextVendorOnly(invoice) == trim(invoice.vendorName)

\* EmbeddingService.generateSearchableText (search.service.ts lines 698-731).
generateSearchableText(invoice) ==
    join((IF trim(invoice.vendorName) # <<>> THEN <<trim(invoice.vendorName)>> ELSE <<>>)
           \o (IF productNamesOf(invoice.items) # <<>>
               THEN <<join(productNamesOf(invoice.items), <<".", " ">>)>>
               ELSE <<>>),
         <<".", " ">>)

\* The invoice in the table before any request: one item, no embedding.
SampleInvoice ==
    [id |-> 1, vendorName |-> <<"G", "a", "u", "r", "a", "v">>, embedding |-> {},
     items |-> itemsToCreate(<<[productName |-> <<"R", "o", "d">>, discountPercentage |-> {10},
                                srNo |-> {}]>>, 1)]

Requests ==
    [kind : {"update"}, id : InvoiceIds, dto : UpdateDtos]
      \cup [kind : {"create"}, id : {0}, dto : CreateDtos]
      \cup [kind : {"generateEmbedding"}, id : InvoiceIds, dto : {NoDto}]

NoLocals == [view |-> {}, text |-> {}]

otherSearchVars ==
    <<filters, preprocessed, callerLimit, normalizedQuery, vendorNames, limit,
      whereConditions, replacements, matched, rawResults, results, returned, failed>>

Returns(call, next) ==
    /\ calls' = Append(calls, call)
    /\ pc' = next

\* The handler ends: its promise is fulfilled or rejected.
Ends(call, how) ==
    /\ calls' = Append(calls, call)
    /\ outcome' = how
    /\ pc' = "done"

\* A request arrives (part_002 lines 26-28, 63-68 and 89-91).  The id of a
\* created invoice is the next of the sequence.
Request ==
    /\ fn = "invoices" /\ pc = "idle"
    /\ \E request \in Requests :
         /\ request.kind = "create" => Cardinality(table) < MaxInvoices
         /\ arg' = [kind |-> request.kind, dto |-> request.dto, before |-> table,
                    id |-> IF request.kind = "create" THEN Cardinality(table) + 1
                           ELSE request.id]
         /\ pc' = IF request.kind = "update" THEN "findOne"
                  ELSE IF request.kind = "create" THEN "writeInvoice"
                  ELSE "findByPk"
    /\ UNCHANGED <<table, out, outcome, calls, fn, otherSearchVars, cacheVars>>

\* findOne (part_008 lines 88-96 and 102).
FindOneReturns ==
    /\ fn = "invoices" /\ pc = "findOne"
    /\ IF HasRow(table, arg.id)
       THEN Returns("findOne", "writeInvoice") /\ UNCHANGED outcome
       ELSE Ends("findOne", "notFound")
    /\ UNCHANGED <<table, arg, out, fn, otherSearchVars, cacheVars>>

\* The row of the invoice after model.create (lines 39-42) or invoice.update
\* (line 124) inside the transaction.
writtenInvoice(rows, request) ==
    IF request.kind = "create"
    THEN [id |-> request.id, vendorName |-> Val(request.dto.vendorName),
          embedding |-> {}, items |-> <<>>]
    ELSE [RowOf(rows, request.id) EXCEPT
            !.vendorName = IF Has(request.dto.vendorName)
                           THEN Val(request.dto.vendorName) ELSE @]

\* The call awaited after the invoice row is written (lines 45 and 127).
afterInvoice(request) ==
    IF request.kind = "create"
    THEN IF Has(request.dto.items) /\ Len(Val(request.dto.items)) > 0
         THEN "bulkCreate" ELSE "reload"
    ELSE IF Has(request.dto.items) THEN "destroy" ELSE "reload"

InvoiceWritten ==
    /\ fn = "invoices" /\ pc = "writeInvoice"
    /\ out' = [out EXCEPT !.view =
                 {{row \in table : row.id # arg.id} \cup {writtenInvoice(table, arg)}}]
    /\ Returns("writeInvoice", afterInvoice(arg))
    /\ UNCHANGED <<table, arg, outcome, fn, otherSearchVars, cacheVars>>

\* The rows with the items of one invoice replaced.
withItems(rows, id, items) ==
    {IF row.id = id THEN [row EXCEPT !.items = items] ELSE row : row \in rows}

\* purchaseInvoiceItemModel.destroy (lines 129-132).
ItemsDestroyed ==
    /\ fn = "invoices" /\ pc = "destroy"
    /\ out' = [out EXCEPT !.view = {withItems(Val(out.view), arg.id, <<>>)}]
    /\ Returns("destroy", IF Len(Val(arg.dto.items)) > 0 THEN "bulkCreate" ELSE "reload")
    /\ UNCHANGED <<table, arg, outcome, fn, otherSearchVars, cacheVars>>

\* purchaseInvoiceItemModel.bulkCreate (lines 59-62 and 149-152).
ItemsCreated ==
    /\ fn = "invoices" /\ pc = "bulkCreate"
    /\ out' = [out EXCEPT !.view =
                 {withItems(Val(out.view), arg.id,
                            RowOf(Val(out.view), arg.id).items
                              \o itemsToCreate(Val(arg.dto.items), arg.id))}]
    /\ Returns("bulkCreate", "reload")
    /\ UNCHANGED <<table, arg, outcome, fn, otherSearchVars, cacheVars>>

\* The reload of lines 66-69 and 157-160 returns and the transaction commits;
\* the controller goes on to generateAndStoreEmbedding (part_002 lines 29, 69).
Committed ==
    /\ fn = "invoices" /\ pc = "reload"
    /\ table' = Val(out.view)
    /\ out' = [out EXCEPT !.view = {}]
    /\ Returns("commit", "findByPk")
    /\ UNCHANGED <<arg, outcome, fn, otherSearchVars, cacheVars>>

\* A call inside sequelize.transaction rejects, or the commit does: the
\* transaction is rolled back and the handler rejects.
TransactionFails ==
    /\ fn = "invoices" /\ pc \in {"writeInvoice", "destroy", "bulkCreate", "reload"}
    /\ out' = [out EXCEPT !.view = {}]
    /\ Ends("rollback", "thrown")
    /\ UNCHANGED <<table, arg, fn, otherSearchVars, cacheVars>>

\* generateAndStoreEmbedding up to line 386 (search.service.ts lines 363-386):
\* the invoice is read, twice, and its searchable text made.
InvoiceRead ==
    /\ fn = "invoices" /\ pc = "findByPk"
    /\ IF HasRow(table, arg.id)
       THEN /\ out' = [out EXCEPT !.text = {generateSearchableText(RowOf(table, arg.id))}]
            /\ Returns("findByPk", "generateEmbedding")
            /\ UNCHANGED outcome
       ELSE Ends("findByPk", "thrown") /\ UNCHANGED out
    /\ UNCHANGED <<table, arg, fn, otherSearchVars, cacheVars>>

\* embeddingService.generateEmbedding answers (line 388).
EmbeddingGenerated ==
    /\ fn = "invoices" /\ pc = "generateEmbedding"
    /\ Returns("generateEmbedding", "storeEmbedding")
    /\ UNCHANGED <<table, arg, out, outcome, fn, otherSearchVars, cacheVars>>

\* invoice.update({ embedding }) (line 391); the embedding of a text is kept
\* as the text it was made from.
EmbeddingStored ==
    /\ fn = "invoices" /\ pc = "storeEmbedding"
    /\ table' = {IF row.id = arg.id THEN [row EXCEPT !.embedding = out.text] ELSE row :
                   row \in table}
    /\ Ends("storeEmbedding", "returned")
    /\ UNCHANGED <<arg, out, fn, otherSearchVars, cacheVars>>

\* A read, the embedding call or the write of the embedding rejects: the catch
\* of lines 392-395 rethrows.  So does findOne when the store fails.
CallFails ==
    /\ fn = "invoices" /\ pc \in {"findOne", "findByPk", "generateEmbedding", "storeEmbedding"}
    /\ Ends("error", "thrown")
    /\ UNCHANGED <<table, arg, out, fn, otherSearchVars, cacheVars>>

\* The response is sent.
Respond ==
    /\ fn = "invoices" /\ pc = "done"
    /\ pc' = "idle" /\ arg' = <<>> /\ out' = NoLocals /\ calls' = <<>>
    /\ outcome' = "pending"
    /\ UNCHANGED <<table, fn, otherSearchVars, cacheVars>>

InvoicesNext ==
    \/ Request
    \/ FindOneReturns
    \/ InvoiceWritten
    \/ ItemsDestroyed
    \/ ItemsCreated
    \/ Committed
    \/ TransactionFails
    \/ InvoiceRead
    \/ EmbeddingGenerated
    \/ EmbeddingStored
    \/ CallFails
    \/ Respond

InvoicesInit ==
    /\ fn = "invoices" /\ arg = <<>> /\ out = NoLocals
    /\ pc = "idle"
    /\ table \in {{}, {SampleInvoice}}
    /\ filters = Consumed
    /\ preprocessed = Consumed
    /\ callerLimit = {}
    /\ normalizedQuery = ""
    /\ vendorNames = <<>>
    /\ limit = 0
    /\ whereConditions = <<>>
    /\ replacements = [limit |-> 0, branchId |-> {}, dateFrom |-> {}, dateTo |-> {},
                       amountMin |-> {}, amountMax |-> {}]
    /\ matched = {}
    /\ rawResults = <<>>
    /\ results = <<>>
    /\ returned = <<>>
    /\ outcome = "pending"
    /\ calls = <<>>
    /\ failed = {}

InitInvoices == InvoicesInit /\ CacheIdle
SpecInvoices == InitInvoices /\ [][InvoicesNext]_vars

----------------------------------------------------------------------------
(* Claims about semanticSearch *)

Merged == pc \notin {"start"}
Finished == pc = "done"

\* No branch id, no date bound and no amount bound after merging.
NoPredicateSet ==
    /\ ~Has(replacements.branchId)
    /\ ~Has(replacements.dateFrom) /\ ~Has(replacements.dateTo)
    /\ ~Has(replacements.amountMin) /\ ~Has(replacements.amountMax)

\* The rows of the queried table that satisfy the merged bounds.
SatisfiesMergedBounds(r) ==
    /\ Has(replacements.branchId) => r.branchId = Val(replacements.branchId)
    /\ Has(replacements.dateFrom) => r.invoiceDate >= Val(replacements.dateFrom)
    /\ Has(replacements.dateTo) => r.invoiceDate <= Val(replacements.dateTo)
    /\ Has(replacements.amountMin) => r.totalAmount >= Val(replacements.amountMin)
    /\ Has(replacements.amountMax) => r.totalAmount <= Val(replacements.amountMax)

ReturnedIds == {returned[i].id : i \in 1..Len(returned)}
MinOf(a, b) == IF a < b THEN a ELSE b

\* The similarity the store computed for a row of the main query.
ScoreOf(id) ==
    LET i == CHOOSE j \in 1..Len(rawResults) : rawResults[j].id = id
    IN rawResults[i].similarityScore

StoreQueries == {"mainQuery", "filterQuery", "diagnostic1", "diagnostic2", "directTest"}

\* C1: when after merging no filter predicate is set and the residual text is
\* empty, the call returns the empty list and has issued neither the embedding
\* call nor any store query.
C1_NothingToSearchReturnsEmpty ==
    (Merged /\ NoPredicateSet /\ normalizedQuery = "")
        => /\ calls = <<>>
           /\ Finished => (outcome = "returned" /\ returned = <<>>)

C1_Witness ==
    /\ Finished /\ NoPredicateSet /\ normalizedQuery = ""
    /\ outcome = "returned" /\ returned = <<>> /\ calls = <<>>

\* C2: the returned list is never longer than filters.limit, an absent limit
\* counting as 20, whatever the caller passed as limit (0 and negative values
\* included).
C2_LengthAtMostCallerLimit ==
    outcome = "returned"
        => Len(returned) <= (IF Has(callerLimit) THEN Val(callerLimit) ELSE DefaultLimit)

\* C3: on the semantic path the returned list is ordered by similarityScore,
\* highest first, holds only rows of the table that have an embedding and
\* satisfy the merged bounds, and no such row left out has a strictly higher
\* similarity than a returned row; when the store answered and the limit is
\* not negative it holds min(limit, number of such rows) rows.
C3_SemanticTopLimit ==
    (outcome = "returned" /\ normalizedQuery # "")
        => LET eligible == {r \in table : r.hasEmbedding /\ SatisfiesMergedBounds(r)}
           IN /\ \A i \in 1..(Len(returned) - 1) :
                    returned[i].similarityScore >= returned[i + 1].similarityScore
              /\ ReturnedIds \subseteq {r.id : r \in eligible}
              /\ \A i, j \in 1..Len(returned) : i # j => returned[i].id # returned[j].id
              /\ \A i \in 1..Len(returned) :
                    returned[i].similarityScore = ScoreOf(returned[i].id)
              /\ \A r \in eligible : \A i \in 1..Len(returned) :
                    r.id \notin ReturnedIds => ScoreOf(r.id) <= returned[i].similarityScore
              /\ ("mainQuery" \notin failed /\ limit >= 0)
                    => Len(returned) = MinOf(limit, Cardinality(eligible))

C3_Witness ==
    /\ outcome = "returned" /\ normalizedQuery # ""
    /\ Len(returned) = 1 /\ Cardinality(matched) = 2
    /\ \E r \in table : ~r.hasEmbedding
    /\ \E i \in 1..Len(rawResults) :
          rawResults[i].similarityScore < returned[1].similarityScore
    /\ rawResults[1].id # returned[1].id

\* C4: with an empty residual text and at least one filter predicate set, the
\* embedding gateway is never called, exactly one store query (the filter-only
\* one) is issued, and the rows returned are those satisfying the merged
\* bounds, newest invoice date first, cut to the limit, each with
\* similarityScore 1.
C4_FilterOnlyPath ==
    (pc \notin {"start", "merged"} /\ normalizedQuery = "" /\ ~NoPredicateSet)
        => /\ calls = <<"filterQuery">>
           /\ outcome = "returned" =>
                LET eligible == {r \in table : SatisfiesMergedBounds(r)}
                IN /\ \A i \in 1..Len(returned) : returned[i].similarityScore = 1
                   /\ \A i \in 1..(Len(returned) - 1) :
                         returned[i].invoiceDate >= returned[i + 1].invoiceDate
                   /\ ReturnedIds \subseteq {r.id : r \in eligible}
                   /\ \A i \in 1..Len(returned) : \E r \in eligible :
                         r.id = returned[i].id /\ r.invoiceDate = returned[i].invoiceDate
                   /\ \A r \in eligible : \A i \in 1..Len(returned) :
                         r.id \notin ReturnedIds => r.invoiceDate <= returned[i].invoiceDate
                   /\ Len(returned) = MinOf(limit, Cardinality(eligible))

C4_Witness ==
    /\ outcome = "returned" /\ normalizedQuery = "" /\ ~NoPredicateSet
    /\ calls = <<"filterQuery">>
    /\ Len(returned) >= 1 /\ Len(returned) < Cardinality(matched)
    /\ \E r \in matched : r.invoiceDate < returned[1].invoiceDate
    /\ returned[1].similarityScore = 1

C6_NoInvertedRange ==
    Merged
        => /\ (Has(replacements.dateFrom) /\ Has(replacements.dateTo))
                => Val(replacements.dateFrom) <= Val(replacements.dateTo)
           /\ (Has(replacements.amountMin) /\ Has(replacements.amountMax))
                => Val(replacements.amountMin) <= Val(replacements.amountMax)

\* C7: when generateEmbedding fails the call throws, hands over no result and
\* issues no store query.
C7_EmbeddingFailurePropagates ==
    "generateEmbedding" \in failed
        => /\ outcome = "thrown"
           /\ returned = <<>>
           /\ calls = <<"generateEmbedding">>

C7_Witness ==
    /\ "generateEmbedding" \in failed /\ Finished /\ outcome = "thrown"
    /\ normalizedQuery # ""

\* C8: when the store query of the search fails, on the semantic path or on
\* the filter-only path, the call ends with a failure and never with a result
\* list.
C8_StoreFailurePropagates ==
    (Finished /\ failed \cap {"mainQuery", "filterQuery"} # {})
        => outcome = "thrown"

\* C9: a request performs at most two suspending I/O calls, at most one
\* embedding call followed by at most one store query.
C9_AtMostTwoCalls ==
    /\ Len(calls) <= 2
    /\ \A i \in 1..Len(calls) : calls[i] = "generateEmbedding" => i = 1
    /\ Cardinality({i \in 1..Len(calls) : calls[i] \in StoreQueries}) <= 1

----------------------------------------------------------------------------
(* Claims about the vocabulary cache *)

CacheStartsEmpty ==
    /\ cache.vendorList = {} /\ cache.productList = {}
    /\ cache.lastCacheUpdate = {}

\* Caller c enters correctQuery in this step.
Enters(c) == refresh[c].pc \in {"idle", "done"} /\ refresh'[c] # refresh[c]

\* The step is the return of line 74: the query was blank.
EntersBlank(c) == Enters(c) /\ refresh'[c].pc = "done"

\* C10 as amended: the cache starts empty with no refresh timestamp; a
\* correctQuery call with a non-blank query issues the vocabulary fetch if and
\* only if the cache was never refreshed or now - lastCacheUpdate >= TTL; a
\* call that finds now - lastCacheUpdate < TTL, or has a blank query, issues
\* no fetch and leaves vendors, products and the timestamp as they were.
C10_RefreshWhenNotWithinTTL ==
    /\ CacheStartsEmpty
    /\ [][\A c \in Callers :
            Enters(c) =>
              LET stale == \/ ~Has(cache.lastCacheUpdate)
                           \/ now - Val(cache.lastCacheUpdate) >= CACHE_TTL_MS
              IN /\ refresh'[c].pc = "fetchVendors" <=> (~EntersBlank(c) /\ stale)
                 /\ refresh'[c].pc = "fetchVendors" => refresh'[c].fetches = 1
                 /\ refresh'[c].pc # "fetchVendors" =>
                       /\ refresh'[c].pc \in {"entities", "done"}
                       /\ refresh'[c].fetches = 0
                       /\ cache' = cache]_vars

C10_Witness ==
    \E c, d \in Callers :
        /\ Has(cache.lastCacheUpdate)
        /\ refresh[c].pc = "fetchVendors"
        /\ refresh[c].now - Val(cache.lastCacheUpdate) = CACHE_TTL_MS
        /\ refresh[d].pc = "entities" /\ refresh[d].fetches = 0

\* C10 as stated: a correctQuery call fetches the vocabularies if and only if
\* the cache was never refreshed or now - lastRefreshed > TTL, and a call made
\* when now - lastRefreshed <= TTL fetches nothing and leaves the cache as it
\* was.
C10_RefreshOnlyAfterTTL ==
    /\ CacheStartsEmpty
    /\ [][\A c \in Callers :
            Enters(c) =>
              LET stale == \/ ~Has(cache.lastCacheUpdate)
                           \/ now - Val(cache.lastCacheUpdate) > CACHE_TTL_MS
              IN /\ refresh'[c].pc = "fetchVendors" <=> stale
                 /\ ~stale => (refresh'[c].fetches = 0 /\ cache' = cache)]_vars

\* The call of caller c is inside its refresh attempt, a fetch outstanding.
Fetching(c) == refresh[c].pc \in {"fetchVendors", "fetchProducts"}

\* C11: when the vendor fetch or the product fetch of a refresh fails, the
\* error is swallowed, correctQuery goes on to return a result, and vendor
\* list, product list, both indexes and lastCacheUpdate are what they were
\* before the refresh attempt.
C11_FailedRefreshKeepsSnapshot ==
    [][\A c \in Callers :
          (Fetching(c) /\ refresh'[c].swallowed)
              => /\ refresh'[c].pc = "entities"
                 /\ Snapshot(cache') = Val(refresh[c].before)]_vars

\* The three parts of the cache were written by one and the same refresh (or
\* are all still the initial ones).
WrittenByOneRefresh ==
    /\ cache.writtenBy.vendors = cache.writtenBy.products
    /\ cache.writtenBy.products = cache.writtenBy.stamp

\* Caller c is at a point where its call reads the cache.
ReadsCache(c) == refresh[c].pc \in {"entities", "words"}

\* C12: whenever a correctQuery call reads the cache, the vendor list, the
\* product list and lastCacheUpdate it finds were written by the same single
\* refresh.
C12_NoHalfUpdatedRead ==
    \A c \in Callers : ReadsCache(c) => WrittenByOneRefresh

\* C28: under any interleaving of refreshEntityCache executions,
\* lastCacheUpdate never decreases, and whenever it is set the cached vendor
\* and product lists come from fetches issued no earlier than the instant it
\* records (an attempt issues its fetches at or after the instant it read at
\* line 531).
C28_StampMonotoneAndListsFresh ==
    /\ [][Has(cache.lastCacheUpdate) =>
            /\ Has(cache'.lastCacheUpdate)
            /\ Val(cache'.lastCacheUpdate) >= Val(cache.lastCacheUpdate)]_vars
    /\ []((recording /\ Has(cache.lastCacheUpdate)) =>
            /\ cache.writtenBy.vendors[2] >= Val(cache.lastCacheUpdate)
            /\ cache.writtenBy.products[2] >= Val(cache.lastCacheUpdate))

----------------------------------------------------------------------------
(* Claims about the text functions of FuzzyMatchingService *)

\* C13: on an unchanged cache correctQuery(correctQuery(q)) = correctQuery(q),
\* and a query that is exactly one of the cached multi-word names comes back
\* unchanged, whatever the order and mutual similarity of the cached names.
C13_CorrectQueryIdempotent ==
    fn = "correctQuery" =>
        /\ (Len(out) = 2 /\ Has(out[2])) => out[2] = out[1]
        /\ (Len(out) >= 1 /\ Has(out[1])
              /\ arg.query \in Range(arg.vendorList) \cup Range(arg.productList))
             => Val(out[1]) = arg.query

\* The window of the query that starts at word i (counted from 1).
Window(queryWords, targetWords, i) == SubSeq(queryWords, i, i + Len(targetWords) - 1)

RECURSIVE SumOfDistances(_, _, _)
SumOfDistances(candidateWords, targetWords, j) ==
    IF j > Len(targetWords) THEN 0
    ELSE levenshteinDistance(toLowerCase(candidateWords[j]), toLowerCase(targetWords[j]))
         + SumOfDistances(candidateWords, targetWords, j + 1)

\* Normalized similarity 1 - distance/maxLen of a word pair is at least 0.6.
PairSimilarEnough(candidateWord, targetWord) ==
    LET dist == levenshteinDistance(toLowerCase(candidateWord), toLowerCase(targetWord))
        maxLen == MaxOf(Len(candidateWord), Len(targetWord))
    IN 10 * (maxLen - dist) >= 6 * maxLen

PhraseAcceptable(candidateWords, targetWords) ==
    /\ \A j \in 1..Len(targetWords) : PairSimilarEnough(candidateWords[j], targetWords[j])
    /\ SumOfDistances(candidateWords, targetWords, 1) <= 2 * Len(targetWords)

\* C14: findFuzzyPhrase returns the first window from the left in which every
\* word pair has similarity >= 0.6 and whose summed edit distance is at most
\* twice the number of words, and null when no window is such; one pair below
\* 0.6 rejects a window whatever the other pairs are.
C14_FuzzyPhraseAcceptance ==
    (fn = "findFuzzyPhrase" /\ Len(out) = 1) =>
        LET q == arg.query
            t == arg.targetPhrase
            acceptable == {i \in 1..(Len(q) - Len(t) + 1) :
                              PhraseAcceptable(Window(q, t, i), t)}
        IN IF acceptable = {} THEN out[1] = {}
           ELSE out[1] = {Window(q, t, SetMin(acceptable))}

\* A window was turned down for one pair at similarity 0.5 although its other
\* word is exact, and a later window at the very boundary (similarity 0.6 and
\* 1) was taken.
C14_Witness ==
    /\ fn = "findFuzzyPhrase" /\ Len(out) = 1 /\ Len(arg.query) = 3
    /\ Len(arg.targetPhrase) = 2
    /\ toLowerCase(arg.query[2]) = toLowerCase(arg.targetPhrase[1])
    /\ ~PairSimilarEnough(arg.query[1], arg.targetPhrase[1])
    /\ levenshteinDistance(toLowerCase(arg.query[1]), toLowerCase(arg.targetPhrase[1])) = 2
    /\ levenshteinDistance(toLowerCase(arg.query[3]), toLowerCase(arg.targetPhrase[2])) = 2
    /\ out[1] = {SubSeq(arg.query, 2, 3)}

\* No lower-case letter / no upper-case letter in the word.
AllUpperCase(word) == \A i \in 1..Len(word) : word[i] \notin Range(LowerLetters)
AllLowerCase(word) == \A i \in 1..Len(word) : word[i] \notin Range(UpperLetters)

\* C15: preserveCase returns corrected in capitals when original is all upper
\* case, in lower case when original is all lower case, with only its first
\* letter in upper case when original is mixed case and starts with an
\* upper-case letter, and in lower case otherwise.
C15_PreserveCasePattern ==
    (fn = "preserveCase" /\ Len(out) = 1) =>
        out[1] = IF AllUpperCase(arg.original) THEN toUpperCase(arg.corrected)
                 ELSE IF AllLowerCase(arg.original) THEN toLowerCase(arg.corrected)
                 ELSE IF arg.original[1] \in Range(UpperLetters)
                      THEN <<toUpperCaseChar(arg.corrected[1])>>
                           \o toLowerCase(Tail(arg.corrected))
                 ELSE toLowerCase(arg.corrected)

----------------------------------------------------------------------------
(* Claims about QueryPreprocessingService *)

Preprocessed == fn = "preprocessQuery" /\ out # <<>>

\* The words of the trimmed lower-case query, and of the text the amounts are
\* extracted from.
QueryWords == WordsOf(toLowerCase(trim(arg.query)))
AmountWords == WordsOf(workingQueryAfterDates(arg.query, arg.now, arg.nlp))

\* The amounts the extraction finds.
AmountsFound == moneyAmounts(AmountWords, arg.nlp) \cup extractAmountsFromPatterns(AmountWords)

\* (between|from) X (and|to) Y somewhere in the words.
RangePatternIn(words) ==
    \E i \in 1..Len(words) :
        MatchesAt(words, i, <<"rangeStart", "number", "rangeLink", "number">>)

\* "between X and Y" or "from X to Y" somewhere in the words.
RangePhraseIn(words) ==
    \E i \in 1..Len(words) :
        \/ MatchesAt(words, i, <<"between", "number", "and", "number">>)
        \/ MatchesAt(words, i, <<"from", "number", "to", "number">>)

FindInvoicesAround5000Rupees ==
    join(<<<<"f", "i", "n", "d">>, <<"i", "n", "v", "o", "i", "c", "e", "s">>,
           <<"a", "r", "o", "u", "n", "d">>, <<"5", "0", "0", "0">>,
           <<"r", "u", "p", "e", "e", "s">>>>, <<" ">>)

\* C16: when the extraction finds exactly one distinct amount a and the range
\* pattern does not match, amountMin = max(0, 0.9 a) and amountMax = 1.1 a
\* (4500 and 5500 for 5000), so 0 <= amountMin <= amountMax.
C16_SingleAmountTolerance ==
    (Preprocessed /\ Cardinality(AmountsFound) = 1 /\ ~RangePatternIn(AmountWords)) =>
        LET a == Val(AmountsFound)
        IN /\ Has(out[1].amountMin) /\ Has(out[1].amountMax)
           /\ 10 * Val(out[1].amountMin) = (IF 9 * a > 0 THEN 9 * a ELSE 0)
           /\ 10 * Val(out[1].amountMax) = 11 * a
           /\ Val(out[1].amountMin) >= 0
           /\ Val(out[1].amountMin) <= Val(out[1].amountMax)
           /\ a = 5000 => out[1].amountMin = {4500} /\ out[1].amountMax = {5500}

C16_Witness ==
    /\ Preprocessed
    /\ arg.query = FindInvoicesAround5000Rupees
    /\ AmountsFound = {5000}
    /\ out[1].amountMin = {4500} /\ out[1].amountMax = {5500}

\* C17: when the query holds "between X and Y" or "from X to Y", amountMin and
\* amountMax are the smallest and the largest amount extracted, with no
\* tolerance, also when X = Y and when further amounts stand elsewhere; two or
\* more distinct amounts without a range phrase give [min, max] as well.
C17_RangeIsExact ==
    (Preprocessed /\ (RangePhraseIn(QueryWords) \/ Cardinality(AmountsFound) >= 2)) =>
        /\ AmountsFound # {}
        /\ out[1].amountMin = {SetMin(AmountsFound)}
        /\ out[1].amountMax = {SetMax(AmountsFound)}

\* "from 1000 to 1000" with nothing else to extract: 1000 to 1000, no band.
C17_Witness ==
    /\ Preprocessed
    /\ RangePhraseIn(QueryWords)
    /\ ~(\E i \in 1..Len(QueryWords) : InClass(QueryWords[i], "between"))
    /\ AmountsFound = {1000}
    /\ out[1].amountMin = {1000} /\ out[1].amountMax = {1000}

\* The absolute dates of the query, as YYYY-MM-DD texts: the words of that
\* form and the dates written "Month Day, Year".
AbsoluteDatesIn(words) ==
    {words[i] : i \in {j \in 1..Len(words) : InClass(words[j], "yearMonthDay")}}
    \cup {String(parseInt(words[i + 2])) \o <<"-">>
          \o padStart(String(getMonthIndex(words[i]) + 1), 2, <<"0">>) \o <<"-">>
          \o padStart(String(parseInt(SelectSeq(words[i + 1], LAMBDA ch : ch \in Digits))), 2, <<"0">>) :
            i \in {j \in 1..Len(words) : MatchesAt(words, j, <<"monthName", "dayComma", "year">>)}}

\* The words of the absolute dates of the query.
AbsoluteDateWords(words) ==
    {words[i] : i \in {j \in 1..Len(words) : InClass(words[j], "yearMonthDay")}}
    \cup UNION {{words[i], words[i + 1], words[i + 2]} :
                  i \in {j \in 1..Len(words) : MatchesAt(words, j, <<"monthName", "dayComma", "year">>)}}

\* C18: a query that holds an absolute date (YYYY-MM-DD or Month Day, Year),
\* whatever other date phrases it holds, gives dateFrom = dateTo = that date,
\* and the text of the date is absent from normalizedQuery.
C18_AbsoluteDateWins ==
    Preprocessed =>
        \A date \in AbsoluteDatesIn(QueryWords) :
            /\ out[1].dateFrom = {date} /\ out[1].dateTo = {date}
            /\ \A word \in AbsoluteDateWords(QueryWords) :
                   word \notin Range(WordsOf(out[1].normalizedQuery))

\* The part of C18 that the code keeps: the text of an absolute date never
\* stays in normalizedQuery.
AbsoluteDateTextRemoved ==
    Preprocessed =>
        \A word \in AbsoluteDateWords(QueryWords) :
            word \notin Range(WordsOf(out[1].normalizedQuery))

\* "last month" is the only date phrase of the words.
OnlyLastMonth(words) ==
    /\ \E i \in 1..Len(words) : MatchesAt(words, i, <<"last", "month">>)
    /\ \A i \in 1..Len(words) :
         /\ ~InClass(words[i], "relativeDay")
         /\ ~InClass(words[i], "yearMonthDay")
         /\ ~InClass(words[i], "monthAbbreviated")
         /\ ~InClass(words[i], "week")
         /\ InClass(words[i], "last") => MatchesAt(words, i, <<"last", "month">>)

\* The year, month (1-12) and day a YYYY-MM-DD text names; the text has four,
\* two and two digits.
NamedDay(text) ==
    LET fields == Fields(text, {"-"})
    IN IF Len(fields) = 3 /\ IsDigits(fields[1], 4, 4) /\ IsDigits(fields[2], 2, 2)
          /\ IsDigits(fields[3], 2, 2)
       THEN <<parseInt(fields[1]), parseInt(fields[2]), parseInt(fields[3])>>
       ELSE <<>>

InvoicesLastMonth ==
    join(<<<<"i", "n", "v", "o", "i", "c", "e", "s">>, <<"l", "a", "s", "t">>,
           <<"m", "o", "n", "t", "h">>>>, <<" ">>)

\* C19: at every evaluation date a query whose only date phrase is "last
\* month" gives the first and the last day of the month before the current
\* one (December of the year before in January), and "invoices last month"
\* leaves the empty normalizedQuery.
C19_LastMonthRange ==
    (Preprocessed /\ OnlyLastMonth(QueryWords)) =>
        LET year == IF arg.now.month = 0 THEN arg.now.year - 1 ELSE arg.now.year
            month == IF arg.now.month = 0 THEN 12 ELSE arg.now.month
        IN /\ Has(out[1].dateFrom) /\ Has(out[1].dateTo)
           /\ NamedDay(Val(out[1].dateFrom)) = <<year, month, 1>>
           /\ NamedDay(Val(out[1].dateTo)) = <<year, month, DaysInMonth(year, month - 1)>>
           /\ arg.query = InvoicesLastMonth => out[1].normalizedQuery = <<>>

\* "invoices last month" asked in January.
C19_Witness ==
    /\ Preprocessed
    /\ arg.query = InvoicesLastMonth
    /\ arg.now.month = 0 /\ arg.now.year = 2024
    /\ NamedDay(Val(out[1].dateFrom)) = <<2023, 12, 1>>
    /\ NamedDay(Val(out[1].dateTo)) = <<2023, 12, 31>>
    /\ out[1].normalizedQuery = <<>>

\* No two neighbouring spaces and none at either end.
SingleSpaced(text) ==
    /\ text # <<>> => text[1] # " " /\ text[Len(text)] # " "
    /\ \A i \in 1..(Len(text) - 1) : ~(text[i] = " " /\ text[i + 1] = " ")

\* C20: removeStopWords(removeStopWords(x)) = removeStopWords(x); the output
\* has no token that is a stop word once lower-cased and stripped of its
\* punctuation, and its tokens are joined by single spaces.
C20_RemoveStopWordsIdempotent ==
    fn = "removeStopWords" =>
        /\ Len(out) >= 1 =>
             /\ \A word \in Range(WordsOf(out[1])) :
                    StripPunctuation(toLowerCase(word)) \notin stopWords
             /\ SingleSpaced(out[1])
        /\ Len(out) = 2 => out[2] = out[1]

\* "A. x": the stop word goes with its full stop, the other word stays.
C20_Witness ==
    /\ fn = "removeStopWords" /\ Len(out) = 2
    /\ arg.query = <<"A", ".", " ", "x">>
    /\ out[1] = <<"x">> /\ out[2] = <<"x">>

PreprocessedWithNames == fn = "preprocessQueryWithNames" /\ out # <<>>

\* C21: every vendor name and every product name that preprocessQuery returns
\* stands in normalizedQuery as it was written, in its own case and with all
\* its words in order.
C21_NamesSurviveVerbatim ==
    PreprocessedWithNames =>
        \A name \in Range(out[1].vendorNames) \cup Range(out[1].productNames) :
            includes(out[1].normalizedQuery, name)

\* The rules of extractDates in the order (a) to (f) of the claim: whether a
\* rule matches the query, and the range it gives by itself.
DateRuleMatches(rule, words, today, nlp) ==
    CASE rule = 1 -> dateTexts(words, nlp) # <<>>
      [] rule = 2 -> \E i \in 1..Len(words) : MatchesAt(words, i, <<"last", "monthName">>)
      [] rule = 3 -> \E i \in 1..Len(words) : MatchesAt(words, i, <<"last", "month">>)
      [] rule = 4 -> \E i \in 1..Len(words) : MatchesAt(words, i, <<"last", "week">>)
      [] rule = 5 -> \E i \in 1..Len(words) : MatchesAt(words, i, <<"monthName", "year">>)
      [] rule = 6 -> chronoParse(words, 1, today) # <<>>

DateRuleRange(rule, words, today, nlp) ==
    CASE rule = 1 -> DateRange(RelativeDay(dateTexts(words, nlp)[1], today),
                               RelativeDay(dateTexts(words, nlp)[1], today))
      [] rule = 2 -> lastNamedMonthRange(
                       words[SetMin({i \in 1..Len(words) :
                                       MatchesAt(words, i, <<"last", "monthName">>)}) + 1],
                       today)
      [] rule = 3 -> lastMonthRange(today)
      [] rule = 4 -> lastWeekRange(today)
      [] rule = 5 -> monthYearRange(
                       words[SetMin({i \in 1..Len(words) :
                                       MatchesAt(words, i, <<"monthName", "year">>)})],
                       parseInt(words[SetMin({i \in 1..Len(words) :
                                       MatchesAt(words, i, <<"monthName", "year">>)}) + 1]))
      [] rule = 6 -> chronoRange(chronoParse(words, 1, today))

MatchingDateRules ==
    {rule \in 1..6 : DateRuleMatches(rule, QueryWords, arg.now, arg.nlp)}

\* C22: the dates extractDates returns are those of the first rule, in the
\* order today/yesterday/tomorrow, last <month name>, last month, last week,
\* <month name> <year>, date parser, that matches the query; the rules after
\* it change nothing, and without a matching rule there are no dates.
C22_FirstMatchingRuleWins ==
    Preprocessed =>
        IF MatchingDateRules = {}
        THEN ~Has(out[1].dateFrom) /\ ~Has(out[1].dateTo)
        ELSE /\ out[1].dateFrom
                  = DateRuleRange(SetMin(MatchingDateRules), QueryWords, arg.now, arg.nlp).dateFrom
             /\ out[1].dateTo
                  = DateRuleRange(SetMin(MatchingDateRules), QueryWords, arg.now, arg.nlp).dateTo

\* "last month last week" on 2024-01-01: both rules match and the dates are
\* those of last month, not those of last week.
C22_Witness ==
    /\ Preprocessed
    /\ {3, 4} \subseteq MatchingDateRules
    /\ SetMin(MatchingDateRules) = 3
    /\ arg.now = [year |-> 2024, month |-> 0, day |-> 1]
    /\ out[1].dateFrom = {<<"2", "0", "2", "3", "-", "1", "2", "-", "0", "1">>}
    /\ out[1].dateTo = {<<"2", "0", "2", "3", "-", "1", "2", "-", "3", "1">>}

\* The calendar day a YYYY-MM-DD text names.
DayNamed(text) ==
    [year |-> NamedDay(text)[1], month |-> NamedDay(text)[2] - 1, day |-> NamedDay(text)[3]]

IsCalendarDay(date) ==
    /\ date.month \in 0..11
    /\ date.day \in 1..DaysInMonth(date.year, date.month)

\* The "last week" rule decides: no rule before it matches the query.
LastWeekDecides == Preprocessed /\ SetMin(MatchingDateRules \cup {7}) = 4

\* C23: on every current date the "last week" rule gives a Monday as
\* dateFrom and the Sunday six days later as dateTo, and that Sunday is the
\* last Sunday before the current date: one to seven days before it.
C23_LastWeekIsLastCompletedWeek ==
    LastWeekDecides =>
        /\ Has(out[1].dateFrom) /\ Has(out[1].dateTo)
        /\ IsCalendarDay(DayNamed(Val(out[1].dateFrom)))
        /\ IsCalendarDay(DayNamed(Val(out[1].dateTo)))
        /\ getDay(DayNamed(Val(out[1].dateFrom))) = 1
        /\ getDay(DayNamed(Val(out[1].dateTo))) = 0
        /\ DayNumber(DayNamed(Val(out[1].dateTo)))
             = DayNumber(DayNamed(Val(out[1].dateFrom))) + 6
        /\ DayNumber(DayNamed(Val(out[1].dateTo))) < DayNumber(arg.now)
        /\ DayNumber(arg.now) - DayNumber(DayNamed(Val(out[1].dateTo))) <= 7

\* "last week" asked on Sunday 2023-01-01: the week from Monday 2022-12-19
\* to Sunday 2022-12-25, in the year before.
C23_Witness ==
    /\ LastWeekDecides
    /\ arg.now = [year |-> 2023, month |-> 0, day |-> 1]
    /\ getDay(arg.now) = 0
    /\ out[1].dateFrom = {<<"2", "0", "2", "2", "-", "1", "2", "-", "1", "9">>}
    /\ out[1].dateTo = {<<"2", "0", "2", "2", "-", "1", "2", "-", "2", "5">>}

\* "last week" is asked on every day of the week.
C23_EveryWeekday ==
    \A weekday \in 0..6 :
        \E today \in EvaluationDates : getDay(today) = weekday

\* Word i of the words begins an amount: a number, alone or with its currency
\* sign, or a currency sign or word with its number after it.
AmountBeginsAt(words, i) ==
    \/ MatchesAt(words, i, <<"number">>)
    \/ MatchesAt(words, i, <<"currencySignNumber">>)
    \/ MatchesAt(words, i, <<"currencySign", "number">>)
    \/ MatchesAt(words, i, <<"currencyWord", "number">>)

\* Word i of the words is part of an amount with its currency.
InAmountWithCurrency(words, i) ==
    \E k \in 1..4 :
        \E j \in 1..i :
            /\ MatchesAt(words, j, getAmountPatterns[k])
            /\ i < j + Len(getAmountPatterns[k])

\* Word i of the words is an approximation qualifier that stands before an
\* amount.
QualifierAt(words, i) ==
    /\ InClass(words[i], "approximately")
    /\ i < Len(words)
    /\ AmountBeginsAt(words, i + 1)

\* C26: whenever an amount was extracted, neither a word of an amount with its
\* currency nor an approximation qualifier that stands before an amount (as
\* "around" in "find invoices around 5000 rupees") remains in normalizedQuery.
C26_AmountTextRemoved ==
    (Preprocessed /\ (Has(out[1].amountMin) \/ Has(out[1].amountMax))) =>
        \A i \in 1..Len(AmountWords) :
            (InAmountWithCurrency(AmountWords, i) \/ QualifierAt(AmountWords, i))
                => AmountWords[i] \notin Range(WordsOf(out[1].normalizedQuery))

----------------------------------------------------------------------------
(* Claims about the word loop of FuzzyMatchingService.correctQuery *)

\* What phoneticMatchVendor returned in a turn of the loop.
PhoneticOf(turn) == phoneticMatchVendor(turn.token, arg.vendorList, turn.answer)

\* The turns in which phoneticMatchVendor returned an accepted match.
AcceptedTurns ==
    IF fn = "correctWords"
    THEN {i \in 1..Len(out) : out[i].answer.status = "rows" /\ Accepted(PhoneticOf(out[i]))}
    ELSE {}

InQueryAlready(turn) ==
    vendorAlreadyInQuery(PhoneticOf(turn).corrected, arg.entities.corrected,
                         arg.entities.matchedEntities)

\* C24 as stated: for an accepted phonetic match, correctSingleWordAsync
\* returns the full vendor name if the name has one token or the confidence
\* is at least 0.95, and the first token alone if the name has several
\* tokens, is not in the query already and the confidence is below 0.95.
C24_FullNameAtHighConfidence ==
    \A i \in AcceptedTurns :
        /\ (Len(PhoneticOf(out[i]).corrected) = 1
              \/ AtLeast(PhoneticOf(out[i]).confidence, 95, 100))
             => out[i].pushed = PhoneticOf(out[i]).corrected
        /\ (/\ Len(PhoneticOf(out[i]).corrected) > 1
            /\ ~InQueryAlready(out[i])
            /\ ~AtLeast(PhoneticOf(out[i]).confidence, 95, 100))
             => out[i].pushed = <<PhoneticOf(out[i]).corrected[1]>>

\* C24, amended: for an accepted phonetic match, correctSingleWordAsync
\* returns the full vendor name if the name has one token, or if the
\* confidence is at least 0.95 and the name is not in the query already; in
\* every other case it returns the first token of the name alone.
C24_FullNameUnlessInQuery ==
    \A i \in AcceptedTurns :
        out[i].pushed =
            IF \/ Len(PhoneticOf(out[i]).corrected) = 1
               \/ /\ AtLeast(PhoneticOf(out[i]).confidence, 95, 100)
                  /\ ~InQueryAlready(out[i])
            THEN PhoneticOf(out[i]).corrected
            ELSE <<PhoneticOf(out[i]).corrected[1]>>

\* A name of two tokens that stands in the query, matched with confidence 1,
\* gives its first token; and the same name, not in the query, is given whole.
C24_Witness ==
    /\ \E i \in AcceptedTurns :
          /\ Len(PhoneticOf(out[i]).corrected) = 2
          /\ AtLeast(PhoneticOf(out[i]).confidence, 95, 100)
          /\ InQueryAlready(out[i])
          /\ out[i].pushed = <<PhoneticOf(out[i]).corrected[1]>>
    /\ Len(out) = Len(arg.entities.corrected)

\* The turns in which the phonetic query of the store failed.
FailedTurns ==
    IF fn = "correctWords"
    THEN {i \in 1..Len(out) : out[i].answer.status = "fails"}
    ELSE {}

\* C25 as stated: a token whose phonetic query failed is pushed unmodified.
C25_FailedTokenUnmodified ==
    \A i \in FailedTurns : out[i].pushed = <<out[i].token>>

\* C25, amended: a failure of the phonetic query is swallowed for its token:
\* the token gets what correctSingleWord gives for it (the static dictionary
\* and the Fuse indexes may still correct it), and the turns after it are
\* those of the following words of the query.
C25_FailedTokenFallsBack ==
    \A i \in FailedTurns :
        /\ out[i].pushed = correctSingleWord(out[i].token, arg.vendorList,
                                             arg.productList, out[i].fuse)
        /\ \A j \in i..Len(out) : out[j].token = arg.entities.corrected[j]

\* The phonetic query failed for the first word, the word was corrected all
\* the same, and the second word was processed after it.
C25_Witness ==
    /\ 1 \in FailedTurns
    /\ out[1].pushed # <<out[1].token>>
    /\ Len(out) = 2

----------------------------------------------------------------------------
(* Claims about PurchaseInvoiceController and PurchaseInvoiceService *)

Searched == fn = "search" /\ out # <<>>

\* C27: the search operation of the controller hands every filter of the
\* caller (branch id, date-from, date-to, amount-min, amount-max, limit) to
\* semanticSearch, so that an amount bound of the caller is a bound of the
\* search whenever the text of the query holds no amount.
C27_EveryFilterHandedOver ==
    Searched =>
        /\ \A field \in {"branchId", "dateFrom", "dateTo", "amountMin", "amountMax", "limit"} :
              out[1].filters[field] = arg.searchDto[field]
        /\ ~Has(arg.preprocessed.amountMin)
             => out[1].replacements.amountMin = arg.searchDto.amountMin
        /\ ~Has(arg.preprocessed.amountMax)
             => out[1].replacements.amountMax = arg.searchDto.amountMax

InFlight(kinds) == fn = "invoices" /\ arg # <<>> /\ arg.kind \in kinds

Place(call) == {i \in 1..Len(calls) : calls[i] = call}

\* The names an embedding is made from: the vendor name, then the product
\* names of the items, blank ones left out.
RECURSIVE ProductNamesFrom(_, _)
ProductNamesFrom(items, i) ==
    IF i > Len(items) THEN <<>>
    ELSE (IF trim(items[i].productName) = <<>> THEN <<>>
          ELSE <<trim(items[i].productName)>>)
         \o ProductNamesFrom(items, i + 1)

NamesOf(invoice) ==
    (IF trim(invoice.vendorName) = <<>> THEN <<>> ELSE <<trim(invoice.vendorName)>>)
      \o ProductNamesFrom(invoice.items, 1)

\* C29: a create or update request of the controller that returns
\* successfully has committed the invoice, then generated an embedding, then
\* stored it, and the invoice holds the embedding of its vendor name and item
\* product names; if the embedding step fails the request fails; and
\* generateAndStoreEmbedding for an id without invoice fails and writes nothing.
C29_EmbeddingFollowsWrite ==
    /\ (InFlight({"create", "update"}) /\ pc = "done" /\ outcome = "returned") =>
          /\ \E i \in Place("commit"), j \in Place("generateEmbedding"),
                k \in Place("storeEmbedding") : i < j /\ j < k
          /\ HasRow(table, arg.id)
          /\ RowOf(table, arg.id).embedding
               = {join(NamesOf(RowOf(table, arg.id)), <<".", " ">>)}
    /\ (InFlight({"create", "update"}) /\ pc = "done"
          /\ Place("commit") # {} /\ Place("storeEmbedding") = {}) =>
          outcome = "thrown"
    /\ (InFlight({"generateEmbedding"}) /\ ~HasRow(arg.before, arg.id)) =>
          /\ table = arg.before
          /\ pc = "done" => outcome = "thrown"

\* An update that replaced two items returned with the embedding of the new
\* vendor name and the new product names.
C29_Witness ==
    /\ InFlight({"update"}) /\ pc = "done" /\ outcome = "returned"
    /\ Has(arg.dto.vendorName) /\ Has(arg.dto.items)
    /\ RowOf(table, arg.id).embedding = {<<"T", "a", "t", "a", ".", " ", "R", "o", "d", ".", " ", "P", "i", "p", "e">>}
    /\ RowOf(arg.before, arg.id).embedding # RowOf(table, arg.id).embedding

\* The items an update leaves for the items of its request.
ExpectedItems(items, id) ==
    [i \in 1..Len(items) |->
        [productName |-> items[i].productName,
         purchaseInvoiceId |-> id,
         srNo |-> IF items[i].srNo = {} THEN i ELSE Val(items[i].srNo),
         discountPercentage |->
             IF items[i].discountPercentage = {} THEN 0
             ELSE SetMax({0, SetMin({100, Val(items[i].discountPercentage)})})]]

\* C30: PurchaseInvoiceService.update is all-or-nothing.  Until it commits the
\* table is as the request found it, so a failure of any step leaves invoice
\* and items as before; an id without invoice gives not-found; once it has
\* committed, the items are exactly the items of the request (discount
\* within 0..100, srNo its own or the position), or the items as before when
\* the request has no items field.
C30_UpdateAllOrNothing ==
    InFlight({"update"}) =>
        /\ Place("commit") = {} => table = arg.before
        /\ (pc = "done" /\ ~HasRow(arg.before, arg.id) /\ Place("findOne") # {})
             => outcome = "notFound"
        /\ outcome = "notFound" => ~HasRow(arg.before, arg.id)
        /\ Place("commit") # {} =>
             /\ {row \in table : row.id # arg.id} = {row \in arg.before : row.id # arg.id}
             /\ RowOf(table, arg.id).items =
                  IF Has(arg.dto.items) THEN ExpectedItems(Val(arg.dto.items), arg.id)
                  ELSE RowOf(arg.before, arg.id).items
             /\ RowOf(table, arg.id).vendorName =
                  IF Has(arg.dto.vendorName) THEN Val(arg.dto.vendorName)
                  ELSE RowOf(arg.before, arg.id).vendorName

\* An update has replaced the one item of the invoice by two: the first with
\* its discount of 150 cut to 100 and srNo 1, the second with -5 raised to 0.
C30_Witness ==
    /\ InFlight({"update"}) /\ Place("commit") # {}
    /\ Len(RowOf(arg.before, arg.id).items) = 1
    /\ Len(RowOf(table, arg.id).items) = 2
    /\ RowOf(table, arg.id).items[1].discountPercentage = 100
    /\ RowOf(table, arg.id).items[1].srNo = 1
    /\ RowOf(table, arg.id).items[2].discountPercentage = 0

\* An update failed after its items were destroyed inside the transaction,
\* and the invoice kept them.
C30_RollbackWitness ==
    /\ InFlight({"update"}) /\ pc = "done" /\ outcome = "thrown"
    /\ Place("destroy") # {} /\ Place("rollback") # {}
    /\ RowOf(table, arg.id).items # <<>>

============================================================================
